---- MODULE Spec2Model ----
(***************************************************************************)
(* Model of the incremental transcript synchronisation pipeline:           *)
(*   daily_sync.py        DailySync (orchestrator)                         *)
(*   src/database.py      TranscriptTracker (progress store, SQLite)       *)
(*   src/client_mapper.py ClientMapper (identity resolution)               *)
(*   src/processor.py     TranscriptProcessor (summarizer adapter)         *)
(*   src/memory_updater.py MemoryUpdater (memory sink)                     *)
(*   reorganize_transcripts.py classify_file (bulk classifier)             *)
(*                                                                         *)
(* Text values are sequences of strings (their concatenation is the text), *)
(* so that substring search, the date regex and slicing are computed.      *)
(* A path is a number p; its folder, file name and content are FileOf(p).  *)
(***************************************************************************)
EXTENDS Integers, Sequences, FiniteSets, TLC

\* ---------------------------------------------------------------- bounds

\* number of distinct transcript paths that may appear under transcripts_dir
MaxPaths == 2
\* how many disruptions one behaviour may hold: interruptions of the process
\* and store writes that fail
MaxDisruptions == 1

\* ------------------------------------------------------ program constants

\* daily_sync.py:115  str(e)[:100]
ERROR_PREFIX_LEN == 100

Paths == 1..MaxPaths

\* ---------------------------------------------------------------- text

Min(a, b) == IF a < b THEN a ELSE b
Max(a, b) == IF a > b THEN a ELSE b

Range(s) == {s[i] : i \in 1..Len(s)}

\* Python s[:n] for n >= 0
Take(s, n) == SubSeq(s, 1, Min(n, Len(s)))

\* Python seq[:n] for any integer n (a negative n counts from the end)
PySliceTo(s, n) == IF n >= 0 THEN Take(s, n) ELSE Take(s, Max(Len(s) + n, 0))

\* str.lower() on one character (ASCII letters)
LowerChar(c) ==
    CASE c = "A" -> "a"
      [] c = "B" -> "b"
      [] c = "C" -> "c"
      [] c = "D" -> "d"
      [] c = "E" -> "e"
      [] c = "F" -> "f"
      [] c = "G" -> "g"
      [] c = "H" -> "h"
      [] c = "I" -> "i"
      [] c = "J" -> "j"
      [] c = "K" -> "k"
      [] c = "L" -> "l"
      [] c = "M" -> "m"
      [] c = "N" -> "n"
      [] c = "O" -> "o"
      [] c = "P" -> "p"
      [] c = "Q" -> "q"
      [] c = "R" -> "r"
      [] c = "S" -> "s"
      [] c = "T" -> "t"
      [] c = "U" -> "u"
      [] c = "V" -> "v"
      [] c = "W" -> "w"
      [] c = "X" -> "x"
      [] c = "Y" -> "y"
      [] c = "Z" -> "z"
      [] OTHER -> c

\* str.lower()
Lower(s) == [i \in 1..Len(s) |-> LowerChar(s[i])]

\* Python `pat in s` on strings
Contains(s, pat) ==
    \E i \in 0..(Len(s) - Len(pat)) : \A j \in 1..Len(pat) : s[i + j] = pat[j]

IsDigit(c) == c \in {"0", "1", "2", "3", "4", "5", "6", "7", "8", "9"}

\* whether \d{4}-\d{2}-\d{2} matches s at offset i (0-based)
DateAt(s, i) ==
    /\ i + 10 <= Len(s)
    /\ \A j \in {1, 2, 3, 4, 6, 7, 9, 10} : IsDigit(s[i + j])
    /\ s[i + 5] = "-"
    /\ s[i + 8] = "-"

\* ------------------------------------------------------------ the files

\* "Meeting.txt"
FN_Meeting == <<"M", "e", "e", "t", "i", "n", "g", ".", "t", "x", "t">>
\* "Asurion 2025-09-22.txt"
FN_Asurion == <<"A", "s", "u", "r", "i", "o", "n", " ", "2", "0", "2", "5", "-",
                "0", "9", "-", "2", "2", ".", "t", "x", "t">>
\* "empty.txt"
FN_Empty == <<"e", "m", "p", "t", "y", ".", "t", "x", "t">>
\* "AIT sync 2025-10-01.txt"
FN_Ait == <<"A", "I", "T", " ", "s", "y", "n", "c", " ", "2", "0", "2", "5", "-",
            "1", "0", "-", "0", "1", ".", "t", "x", "t">>
\* "ait x asurion 2025-01-02 2025-03-04.txt"
FN_Both == <<"a", "i", "t", " ", "x", " ", "a", "s", "u", "r", "i", "o", "n", " ",
             "2", "0", "2", "5", "-", "0", "1", "-", "0", "2", " ",
             "2", "0", "2", "5", "-", "0", "3", "-", "0", "4", ".", "t", "x", "t">>

\* the transcript files that may exist: containing folder, file name, and
\* whether the content is empty or whitespace only
FILES ==
    << [series |-> "Unknown Series", filename |-> FN_Asurion, blank |-> FALSE],
       [series |-> "Test_Series", filename |-> FN_Empty, blank |-> TRUE],
       [series |-> "Ambient_ Project", filename |-> FN_Meeting, blank |-> FALSE],
       [series |-> "All Hands", filename |-> FN_Ait, blank |-> FALSE],
       [series |-> "Test_Series", filename |-> FN_Both, blank |-> FALSE] >>

FileOf(p) == FILES[((p - 1) % Len(FILES)) + 1]

\* Path(filepath).name
PathName(p) == FileOf(p).filename

\* ------------------------------------------------- ClientMapper (config)

\* config "default_client"
default_client == "Other"

\* config "meeting_series_to_client"
series_map ==
    [s \in {"Ambient_ Project", "AIT Consulting Weekly", "All Hands",
            "Weekly Proposal Review"} |->
        CASE s = "Ambient_ Project" -> "Asurion"
          [] s = "AIT Consulting Weekly" -> "AIT_Internal"
          [] OTHER -> "Section_Internal"]

\* config "filename_patterns", in configuration order (the first rule is the
\* one the tests use; the second gives a label with a space in it)
filename_patterns ==
    << [pattern |-> <<"A", "s", "u", "r", "i", "o", "n">>, client |-> "Asurion"],
       [pattern |-> <<"A", "I", "T">>, client |-> "AIT Internal"] >>

\* what ClientMapper.__init__ keeps of the configuration file
LoadedConfig ==
    [series_map |-> series_map, filename_patterns |-> filename_patterns,
     default |-> default_client]

\* the configurations a ClientMapper may be loaded from: with and without
\* series mappings, the keyword rules in either order or absent, and
\* "default_client" set to something else than "Other"
Configs ==
    [series_map : {series_map, [s \in {} |-> ""]},
     filename_patterns : {filename_patterns,
                          <<filename_patterns[2], filename_patterns[1]>>, <<>>},
     default : {default_client, "Unknown"}]

VARIABLE
    mapper          \* the ClientMapper object: series_map, filename_patterns, default

\* a miss gives "Other", whatever the configuration says
get_client_default_other(meeting_series) ==
    IF meeting_series \in DOMAIN mapper.series_map
    THEN mapper.series_map[meeting_series]
    ELSE "Other"

\* ClientMapper.get_client: dict.get(meeting_series, self.default)
get_client(meeting_series) ==
    IF meeting_series \in DOMAIN mapper.series_map
    THEN mapper.series_map[meeting_series]
    ELSE mapper.default

\* the last matching rule wins
get_client_from_filename_last(filename) ==
    LET hits == {i \in 1..Len(mapper.filename_patterns) :
                    Contains(Lower(filename),
                             Lower(mapper.filename_patterns[i].pattern))}
    IN  IF hits = {}
        THEN mapper.default
        ELSE mapper.filename_patterns[CHOOSE i \in hits : \A j \in hits : i >= j].client

\* ClientMapper.get_client_from_filename
get_client_from_filename(filename) ==
    LET hits == {i \in 1..Len(mapper.filename_patterns) :
                    Contains(Lower(filename),
                             Lower(mapper.filename_patterns[i].pattern))}
    IN  IF hits = {}
        THEN mapper.default
        ELSE mapper.filename_patterns[CHOOSE i \in hits : \A j \in hits : i <= j].client

\* DailySync.extract_meeting_series
extract_meeting_series(p) == FileOf(p).series

\* DailySync.extract_date_from_filename: <<>> stands for None
extract_date_from_filename(filename) ==
    LET at == {i \in 0..Len(filename) : DateAt(filename, i)}
    IN  IF at = {}
        THEN <<>>
        ELSE LET i == CHOOSE k \in at : \A m \in at : k <= m
             IN  SubSeq(filename, i + 1, i + 10)

\* process_single, lines 70-76: the client label of a file
ResolveClient(p) ==
    LET client == get_client(extract_meeting_series(p))
    IN  IF client = "Other"
        THEN get_client_from_filename(PathName(p))
        ELSE client

\* ------------------------------------------- TranscriptProcessor results

\* what process_file hands back: {} ("empty"), a non-empty mapping ("fields",
\* date = <<>> when the "date" key is missing or empty), or a truthy JSON
\* value that is no mapping ("nonmapping", e.g. a list); "none" before the call
NoProcessed == [kind |-> "none", date |-> <<>>]
EmptyFields == [kind |-> "empty", date |-> <<>>]
\* the summarizer's date field, "2025-01-01"
SUMMARY_DATE == <<"2", "0", "2", "5", "-", "0", "1", "-", "0", "1">>
DatedFields == [kind |-> "fields", date |-> SUMMARY_DATE]
UndatedFields == [kind |-> "fields", date |-> <<>>]
NonMapping == [kind |-> "nonmapping", date |-> <<>>]

\* Python truth value of the returned object (`if not processed`)
Truthy(processed_) == processed_.kind \in {"fields", "nonmapping"}

\* messages of the exceptions a single file can raise
MSG_IO == <<"[Errno 2] No such file or directory">>
\* an API error whose text is longer than 100 characters
MSG_API == [i \in 1..120 |-> "x"]
MSG_ATTR == <<"'list' object has no attribute 'get'">>
MSG_DB == <<"database is locked">>

\* what one call of process_file on path p can do: raise on open/read, return
\* {} without an external call for blank text, or make the external call,
\* which raises or answers
Outcomes(p) ==
    IF FileOf(p).blank
    THEN {"ioerror", "blank"}
    ELSE {"apierror", "unparseable", "dated", "undated", "nonmapping"}

\* whether the outcome involves a call of the external summarization service
CallsApi(o) == o \in {"apierror", "unparseable", "dated", "undated", "nonmapping"}

ReturnOf(o) ==
    CASE o \in {"blank", "unparseable"} -> EmptyFields
      [] o = "dated" -> DatedFields
      [] o = "undated" -> UndatedFields
      [] o = "nonmapping" -> NonMapping
      [] OTHER -> NoProcessed

\* -------------------------------------- TranscriptProcessor, in detail

\* the whitespace str.strip() removes
IsSpace(c) == c \in {" ", "\n", "\t"}

\* str.strip()
Strip(s) ==
    LET ink == {i \in 1..Len(s) : ~ IsSpace(s[i])}
    IN  IF ink = {}
        THEN <<>>
        ELSE SubSeq(s, CHOOSE i \in ink : \A j \in ink : i <= j,
                       CHOOSE i \in ink : \A j \in ink : i >= j)

\* a response text is a sequence of tokens; these two are the code fences
\* (three backquotes, written with apostrophes here)
FENCE_JSON == "'''json"
FENCE == "'''"

\* `sep in s`, for a separator that is one of the tokens seps
HasToken(s, seps) == \E i \in 1..Len(s) : s[i] \in seps

\* position of the first separator in s (Len(s) + 1 when there is none)
FirstAt(s, seps) ==
    IF HasToken(s, seps)
    THEN CHOOSE i \in 1..Len(s) : s[i] \in seps /\ \A j \in 1..(i - 1) : s[j] \notin seps
    ELSE Len(s) + 1

\* s.split(sep)[0]
SplitFirst(s, seps) == SubSeq(s, 1, FirstAt(s, seps) - 1)

\* s.split(sep)[1], for s that holds sep
SplitSecond(s, seps) == SplitFirst(SubSeq(s, FirstAt(s, seps) + 1, Len(s)), seps)

\* process_transcript, lines 49-52: the JSON is taken out of a code block;
\* the text of the json fence holds the text of the plain fence, so the
\* second split stops at either fence
ExtractJson(result_text) ==
    IF HasToken(result_text, {FENCE_JSON})
    THEN SplitFirst(SplitSecond(result_text, {FENCE_JSON}), {FENCE, FENCE_JSON})
    ELSE IF HasToken(result_text, {FENCE})
         THEN SplitFirst(SplitSecond(result_text, {FENCE}), {FENCE})
         ELSE result_text

\* JSON null: the Python value None
NullValue == [kind |-> "null", date |-> <<>>]

IsJsonString(tok) ==
    tok \in {"\"date\"", "\"meeting_title\"", "\"2025-01-01\"", "\"Sync\""}
IsJsonScalar(tok) == IsJsonString(tok) \/ tok \in {"1", "null"}

\* json.loads on the documents of this small grammar: an object with no or
\* one member, a list with one element, a scalar; anything else is a
\* JSONDecodeError (ok = FALSE)
JsonLoads(t) ==
    CASE t = <<"{", "}">> -> [ok |-> TRUE, value |-> EmptyFields]
      [] /\ Len(t) = 5
         /\ t[1] = "{" /\ IsJsonString(t[2]) /\ t[3] = ":" /\ IsJsonScalar(t[4])
         /\ t[5] = "}" ->
            [ok |-> TRUE,
             value |-> IF t[2] = "\"date\"" /\ t[4] = "\"2025-01-01\""
                       THEN DatedFields ELSE UndatedFields]
      [] Len(t) = 3 /\ t[1] = "[" /\ IsJsonScalar(t[2]) /\ t[3] = "]" ->
            [ok |-> TRUE, value |-> NonMapping]
      [] t = <<"null">> -> [ok |-> TRUE, value |-> NullValue]
      [] Len(t) = 1 /\ IsJsonScalar(t[1]) /\ t[1] # "null" ->
            [ok |-> TRUE, value |-> NonMapping]
      [] OTHER -> [ok |-> FALSE, value |-> NoProcessed]

\* what a call of process_transcript did: whether it called the service,
\* whether it raised, and the value it returned
ProcessorAnswer(called, raised, value) ==
    [called |-> called, raised |-> raised, value |-> value]

\* the blank check is missing: every text goes to the service
process_transcript_always_calls(transcript_text, response) ==
    IF response.raises
    THEN ProcessorAnswer(TRUE, TRUE, NoProcessed)
    ELSE IF response.content = <<>>
         THEN ProcessorAnswer(TRUE, FALSE, EmptyFields)
         ELSE LET parsed == JsonLoads(Strip(ExtractJson(response.content[1])))
              IN  ProcessorAnswer(TRUE, FALSE,
                                  IF parsed.ok THEN parsed.value ELSE EmptyFields)

\* TranscriptProcessor.process_transcript; response is what messages.create
\* does for this call: it raises, or answers with a list of text blocks
process_transcript(transcript_text, response) ==
    IF Strip(transcript_text) = <<>>
    THEN ProcessorAnswer(FALSE, FALSE, EmptyFields)
    ELSE IF response.raises
         THEN ProcessorAnswer(TRUE, TRUE, NoProcessed)
         ELSE IF response.content = <<>>
              THEN ProcessorAnswer(TRUE, FALSE, EmptyFields)
              ELSE LET parsed == JsonLoads(Strip(ExtractJson(response.content[1])))
                   IN  ProcessorAnswer(TRUE, FALSE,
                                       IF parsed.ok THEN parsed.value ELSE EmptyFields)

\* a call that raised is made once more
ServiceCalls_RetryOnError(transcript_text, response) ==
    IF Strip(transcript_text) = <<>>
    THEN 0
    ELSE IF response.raises THEN 2 ELSE 1

\* process_transcript, lines 34-44: how many times messages.create is
\* invoked; there is one call site, outside any loop, after the blank check
ServiceCalls(transcript_text, response) ==
    IF Strip(transcript_text) = <<>> THEN 0 ELSE 1

\* transcript texts: empty, whitespace only, and with words in them
Texts ==
    { <<>>, <<" ", "\n", "\t">>, <<"h", "i">>, <<" ", "h", "i", "\n">> }

\* response texts of the service
RT_Dated == <<"{", "\"date\"", ":", "\"2025-01-01\"", "}">>
RT_FencedJson ==
    <<"Here is the summary:", "\n", FENCE_JSON, "\n", "{", "\"meeting_title\"",
      ":", "\"Sync\"", "}", "\n", FENCE, "\n", "Anything else?">>
RT_Fenced == <<FENCE, "\n", "{", "}", "\n", FENCE>>
RT_Prose == <<"Sorry, there is nothing to summarize.">>
RT_OpenFence == <<FENCE_JSON, "{", "\"date\"", ":">>
RT_List == <<"[", "\"Sync\"", "]">>
RT_Null == <<"null">>

\* what messages.create can do
Responses ==
    {[raises |-> TRUE, content |-> <<>>], [raises |-> FALSE, content |-> <<>>]}
        \cup {[raises |-> FALSE, content |-> <<t>>] :
                t \in {RT_Dated, RT_FencedJson, RT_Fenced, RT_Prose, RT_OpenFence,
                       RT_List, RT_Null}}

\* ----------------------------------------------------- MemoryUpdater

\* MemoryUpdater.format_entity_name: every space becomes an underscore
format_entity_name(name) ==
    CASE name = "AIT Internal" -> "AIT_Internal"
      [] OTHER -> name

\* str.join: the parts (each a sequence of pieces of text) with sep between
\* every two of them
RECURSIVE JoinSeq(_, _)
JoinSeq(parts, sep) ==
    IF parts = <<>>
    THEN <<>>
    ELSE IF Len(parts) = 1
         THEN parts[1]
         ELSE parts[1] \o sep \o JoinSeq(Tail(parts), sep)

\* the date part, f"{date}:" with "Unknown date" for a missing key; the
\* date of the data is <<>> (no "date" key) or <<text>>, the text of an
\* empty date being ""
DatePart(data) ==
    IF data.date = <<>> THEN <<"Unknown date", ":">> ELSE <<data.date[1], ":">>

\* "Discussed <the first three topics, joined by ", ">."
TopicsPart(data) ==
    <<"Discussed ">>
        \o JoinSeq([i \in 1..Len(Take(data.main_topics, 3)) |-> <<data.main_topics[i]>>],
                   <<", ">>)
        \o <<".">>

\* MemoryUpdater.build_observation: the text, as its pieces in order
build_observation(data) ==
    JoinSeq(<<DatePart(data)>>
              \o (IF data.main_topics # <<>> THEN <<TopicsPart(data)>> ELSE <<>>)
              \o (IF data.key_context # <<>> THEN <<<<data.key_context[1]>>>> ELSE <<>>)
              \o (IF data.implied_work # <<>>
                  THEN <<<<"Potential follow-up: ", data.implied_work[1]>>>>
                  ELSE <<>>),
            <<" ">>)

\* the summaries build_observation is given: without a date, with an empty
\* date and with a date, with
\* no, one, three and four topics, with no, one and two items of context and
\* of implied work
TOPICS == <<"Roadmap", "Budget", "Team", "Hiring">>
Summaries ==
    [date : {<<>>, <<"">>, <<"2025-01-15">>},
     main_topics : {<<>>, Take(TOPICS, 1), Take(TOPICS, 3), TOPICS},
     key_context : {<<>>, <<"Q1 deadline">>, <<"Q1 deadline", "Q2 plan">>},
     implied_work : {<<>>, <<"Prep doc">>, <<"Prep doc", "Book room">>}]

\* ------------------------------- reorganize_transcripts.py (bulk classifier)

\* CLIENT_MAPPINGS: the folders in order, each with its keywords in order
CLIENT_MAPPINGS ==
    <<
       [folder |-> "Asurion",
        keywords |-> <<
          \* "asurion"
          <<"a", "s", "u", "r", "i", "o", "n">>,
          \* "section x asurion"
          <<"s", "e", "c", "t", "i", "o", "n", " ", "x", " ", "a", "s", "u",
            "r", "i", "o", "n">>,
          \* "asurion x section"
          <<"a", "s", "u", "r", "i", "o", "n", " ", "x", " ", "s", "e", "c",
            "t", "i", "o", "n">> >>],
       [folder |-> "ABI",
        keywords |-> <<
          \* "abi "
          <<"a", "b", "i", " ">>,
          \* "abi_"
          <<"a", "b", "i", "_">>,
          \* " abi"
          <<" ", "a", "b", "i">>,
          \* "ab inbev"
          <<"a", "b", " ", "i", "n", "b", "e", "v">> >>],
       [folder |-> "General Catalyst",
        keywords |-> <<
          \* "general catalyst"
          <<"g", "e", "n", "e", "r", "a", "l", " ", "c", "a", "t", "a", "l",
            "y", "s", "t">>,
          \* " gc "
          <<" ", "g", "c", " ">>,
          \* "gc x section"
          <<"g", "c", " ", "x", " ", "s", "e", "c", "t", "i", "o", "n">>,
          \* "gc prep"
          <<"g", "c", " ", "p", "r", "e", "p">>,
          \* "gc event"
          <<"g", "c", " ", "e", "v", "e", "n", "t">>,
          \* "gc leaders"
          <<"g", "c", " ", "l", "e", "a", "d", "e", "r", "s">>,
          \* "gc functional"
          <<"g", "c", " ", "f", "u", "n", "c", "t", "i", "o", "n", "a", "l">>,
          \* "gc ai for leaders"
          <<"g", "c", " ", "a", "i", " ", "f", "o", "r", " ", "l", "e", "a",
            "d", "e", "r", "s">>,
          \* "gc internal"
          <<"g", "c", " ", "i", "n", "t", "e", "r", "n", "a", "l">>,
          \* "zoom_ hatco x section ai"
          <<"z", "o", "o", "m", "_", " ", "h", "a", "t", "c", "o", " ", "x",
            " ", "s", "e", "c", "t", "i", "o", "n", " ", "a", "i">>,
          \* "zoom_ imco x section ai"
          <<"z", "o", "o", "m", "_", " ", "i", "m", "c", "o", " ", "x", " ",
            "s", "e", "c", "t", "i", "o", "n", " ", "a", "i">>,
          \* "zoom_ ir x section ai"
          <<"z", "o", "o", "m", "_", " ", "i", "r", " ", "x", " ", "s", "e",
            "c", "t", "i", "o", "n", " ", "a", "i">>,
          \* "zoom_ hr x section ai"
          <<"z", "o", "o", "m", "_", " ", "h", "r", " ", "x", " ", "s", "e",
            "c", "t", "i", "o", "n", " ", "a", "i">>,
          \* "zoom_ gc capital x section ai"
          <<"z", "o", "o", "m", "_", " ", "g", "c", " ", "c", "a", "p", "i",
            "t", "a", "l", " ", "x", " ", "s", "e", "c", "t", "i", "o", "n",
            " ", "a", "i">>,
          \* "zoom_ marketing x section ai"
          <<"z", "o", "o", "m", "_", " ", "m", "a", "r", "k", "e", "t", "i",
            "n", "g", " ", "x", " ", "s", "e", "c", "t", "i", "o", "n", " ",
            "a", "i">>,
          \* "zoom_ legal & compliance x section ai"
          <<"z", "o", "o", "m", "_", " ", "l", "e", "g", "a", "l", " ", "&",
            " ", "c", "o", "m", "p", "l", "i", "a", "n", "c", "e", " ", "x",
            " ", "s", "e", "c", "t", "i", "o", "n", " ", "a", "i">>,
          \* "zoom_ operations x section ai"
          <<"z", "o", "o", "m", "_", " ", "o", "p", "e", "r", "a", "t", "i",
            "o", "n", "s", " ", "x", " ", "s", "e", "c", "t", "i", "o", "n",
            " ", "a", "i">>,
          \* "zoom _ gcw ai champions x section"
          <<"z", "o", "o", "m", " ", "_", " ", "g", "c", "w", " ", "a", "i",
            " ", "c", "h", "a", "m", "p", "i", "o", "n", "s", " ", "x", " ",
            "s", "e", "c", "t", "i", "o", "n">>,
          \* "hatco prompt file"
          <<"h", "a", "t", "c", "o", " ", "p", "r", "o", "m", "p", "t", " ",
            "f", "i", "l", "e">> >>],
       [folder |-> "Havas",
        keywords |-> <<
          \* "havas"
          <<"h", "a", "v", "a", "s">> >>],
       [folder |-> "HP",
        keywords |-> <<
          \* "hp x section"
          <<"h", "p", " ", "x", " ", "s", "e", "c", "t", "i", "o", "n">>,
          \* "hp+section"
          <<"h", "p", "+", "s", "e", "c", "t", "i", "o", "n">>,
          \* "hp ai summit"
          <<"h", "p", " ", "a", "i", " ", "s", "u", "m", "m", "i", "t">> >>],
       [folder |-> "L'Oreal",
        keywords |-> <<
          \* "l'oreal"
          <<"l", "'", "o", "r", "e", "a", "l">>,
          \* "loreal"
          <<"l", "o", "r", "e", "a", "l">> >>],
       [folder |-> "Comcast",
        keywords |-> <<
          \* "comcast"
          <<"c", "o", "m", "c", "a", "s", "t">> >>],
       [folder |-> "Autodesk",
        keywords |-> <<
          \* "autodesk"
          <<"a", "u", "t", "o", "d", "e", "s", "k">> >>],
       [folder |-> "Horizon",
        keywords |-> <<
          \* "horizon"
          <<"h", "o", "r", "i", "z", "o", "n">>,
          \* "martech 101"
          <<"m", "a", "r", "t", "e", "c", "h", " ", "1", "0", "1">> >>],
       [folder |-> "DeckSense",
        keywords |-> <<
          \* "decksense"
          <<"d", "e", "c", "k", "s", "e", "n", "s", "e">>,
          \* "deck sense"
          <<"d", "e", "c", "k", " ", "s", "e", "n", "s", "e">>,
          \* "wireframe review"
          <<"w", "i", "r", "e", "f", "r", "a", "m", "e", " ", "r", "e", "v",
            "i", "e", "w">>,
          \* "design sprint"
          <<"d", "e", "s", "i", "g", "n", " ", "s", "p", "r", "i", "n", "t">>,
          \* "feature prioritization"
          <<"f", "e", "a", "t", "u", "r", "e", " ", "p", "r", "i", "o", "r",
            "i", "t", "i", "z", "a", "t", "i", "o", "n">>,
          \* "ui review"
          <<"u", "i", " ", "r", "e", "v", "i", "e", "w">> >>],
       [folder |-> "OpenAI",
        keywords |-> <<
          \* "openai"
          <<"o", "p", "e", "n", "a", "i">>,
          \* "open ai"
          <<"o", "p", "e", "n", " ", "a", "i">>,
          \* "oai partner"
          <<"o", "a", "i", " ", "p", "a", "r", "t", "n", "e", "r">> >>],
       [folder |-> "10x AI",
        keywords |-> <<
          \* "10x ai"
          <<"1", "0", "x", " ", "a", "i">> >>],
       [folder |-> "Builder",
        keywords |-> <<
          \* "builder in a day"
          <<"b", "u", "i", "l", "d", "e", "r", " ", "i", "n", " ", "a", " ",
            "d", "a", "y">>,
          \* "building llm automations"
          <<"b", "u", "i", "l", "d", "i", "n", "g", " ", "l", "l", "m", " ",
            "a", "u", "t", "o", "m", "a", "t", "i", "o", "n", "s">>,
          \* "building agentic workflows"
          <<"b", "u", "i", "l", "d", "i", "n", "g", " ", "a", "g", "e", "n",
            "t", "i", "c", " ", "w", "o", "r", "k", "f", "l", "o", "w", "s">> >>],
       [folder |-> "Unilever",
        keywords |-> <<
          \* "unilever"
          <<"u", "n", "i", "l", "e", "v", "e", "r">> >>],
       [folder |-> "BSWH",
        keywords |-> <<
          \* "bswh"
          <<"b", "s", "w", "h">> >>] >>

\* RECURRING_SERIES: the titles in order, as folder name and as text
RECURRING_SERIES ==
    <<
       [name |-> "All Hands",
        text |-> <<"A", "l", "l", " ", "H", "a", "n", "d", "s">>],
       [name |-> "AIT Consulting Weekly",
        text |-> <<"A", "I", "T", " ", "C", "o", "n", "s", "u", "l", "t", "i",
                  "n", "g", " ", "W", "e", "e", "k", "l", "y">>],
       [name |-> "Weekly Proposal Review",
        text |-> <<"W", "e", "e", "k", "l", "y", " ", "P", "r", "o", "p", "o",
                  "s", "a", "l", " ", "R", "e", "v", "i", "e", "w">>],
       [name |-> "Kyra & Alli 1x1",
        text |-> <<"K", "y", "r", "a", " ", "&", " ", "A", "l", "l", "i", " ",
                  "1", "x", "1">>],
       [name |-> "Lauren _ Kyra 1_1",
        text |-> <<"L", "a", "u", "r", "e", "n", " ", "_", " ", "K", "y", "r",
                  "a", " ", "1", "_", "1">>],
       [name |-> "Kyra _ Mary 1_1",
        text |-> <<"K", "y", "r", "a", " ", "_", " ", "M", "a", "r", "y", " ",
                  "1", "_", "1">>],
       [name |-> "Kyra __ Tom Monday Check In",
        text |-> <<"K", "y", "r", "a", " ", "_", "_", " ", "T", "o", "m", " ",
                  "M", "o", "n", "d", "a", "y", " ", "C", "h", "e", "c", "k",
                  " ", "I", "n">>],
       [name |-> "Tom _ Kyra_ Working Session",
        text |-> <<"T", "o", "m", " ", "_", " ", "K", "y", "r", "a", "_", " ",
                  "W", "o", "r", "k", "i", "n", "g", " ", "S", "e", "s", "s",
                  "i", "o", "n">>],
       [name |-> "Education Team Weekly",
        text |-> <<"E", "d", "u", "c", "a", "t", "i", "o", "n", " ", "T", "e",
                  "a", "m", " ", "W", "e", "e", "k", "l", "y">>],
       [name |-> "AI Transformation Lead Bootcamp Biweekly Sync",
        text |-> <<"A", "I", " ", "T", "r", "a", "n", "s", "f", "o", "r", "m",
                  "a", "t", "i", "o", "n", " ", "L", "e", "a", "d", " ", "B",
                  "o", "o", "t", "c", "a", "m", "p", " ", "B", "i", "w", "e",
                  "e", "k", "l", "y", " ", "S", "y", "n", "c">>],
       [name |-> "Direct to Employee Experiences Weekly",
        text |-> <<"D", "i", "r", "e", "c", "t", " ", "t", "o", " ", "E", "m",
                  "p", "l", "o", "y", "e", "e", " ", "E", "x", "p", "e", "r",
                  "i", "e", "n", "c", "e", "s", " ", "W", "e", "e", "k", "l",
                  "y">>],
       [name |-> "Enterprise Workshops Weekly",
        text |-> <<"E", "n", "t", "e", "r", "p", "r", "i", "s", "e", " ", "W",
                  "o", "r", "k", "s", "h", "o", "p", "s", " ", "W", "e", "e",
                  "k", "l", "y">>],
       [name |-> "Company Lunch & Learn",
        text |-> <<"C", "o", "m", "p", "a", "n", "y", " ", "L", "u", "n", "c",
                  "h", " ", "&", " ", "L", "e", "a", "r", "n">>] >>

\* PERSONAL_KEYWORDS
PERSONAL_KEYWORDS ==
    <<
       \* "pa nkwate"
       <<"p", "a", " ", "n", "k", "w", "a", "t", "e">>,
       \* "funeral"
       <<"f", "u", "n", "e", "r", "a", "l">>,
       \* "ojukwu"
       <<"o", "j", "u", "k", "w", "u">>,
       \* "maryland wake"
       <<"m", "a", "r", "y", "l", "a", "n", "d", " ", "w", "a", "k", "e">>,
       \* "maryland funeral"
       <<"m", "a", "r", "y", "l", "a", "n", "d", " ", "f", "u", "n", "e",
         "r", "a", "l">>,
       \* "fotemah"
       <<"f", "o", "t", "e", "m", "a", "h">>,
       \* "celebration of life"
       <<"c", "e", "l", "e", "b", "r", "a", "t", "i", "o", "n", " ", "o",
         "f", " ", "l", "i", "f", "e">> >>

\* DATE_RE.search: the 0-based offsets where " \d{4}-\d{2}-\d{2} " matches
DATE_RE(s) ==
    {i \in 0..(Len(s) - 12) : s[i + 1] = " " /\ DateAt(s, i + 1) /\ s[i + 12] = " "}

\* str.replace(old, ""): every occurrence of old, from the left, is removed
RECURSIVE RemoveAll(_, _)
RemoveAll(s, old) ==
    IF Len(s) < Len(old)
    THEN s
    ELSE IF SubSeq(s, 1, Len(old)) = old
         THEN RemoveAll(SubSeq(s, Len(old) + 1, Len(s)), old)
         ELSE <<s[1]>> \o RemoveAll(Tail(s), old)

\* str.rstrip()
RStrip(s) ==
    LET ink == {i \in 1..Len(s) : ~ IsSpace(s[i])}
    IN  IF ink = {} THEN <<>> ELSE SubSeq(s, 1, CHOOSE i \in ink : \A j \in ink : i >= j)

\* " transcript.txt"
TRANSCRIPT_SUFFIX == <<" ", "t", "r", "a", "n", "s", "c", "r", "i", "p", "t",
                       ".", "t", "x", "t">>

\* extract_title: what stands before the first date, else the name without
\* " transcript.txt"; stripped
extract_title(filename) ==
    LET m == DATE_RE(filename)
    IN  IF m # {}
        THEN Strip(Take(filename, CHOOSE i \in m : \A j \in m : i <= j))
        ELSE Strip(RemoveAll(filename, TRANSCRIPT_SUFFIX))

\* the entries of CLIENT_MAPPINGS with a keyword contained in the text
ClientHits(lower) ==
    {i \in 1..Len(CLIENT_MAPPINGS) :
        \E k \in 1..Len(CLIENT_MAPPINGS[i].keywords) :
            Contains(lower, CLIENT_MAPPINGS[i].keywords[k])}

\* whether a personal keyword is contained in the text
PersonalHit(lower) ==
    \E k \in 1..Len(PERSONAL_KEYWORDS) : Contains(lower, PERSONAL_KEYWORDS[k])

\* the recurring series whose title is the given one
SeriesHits(title) ==
    {i \in 1..Len(RECURRING_SERIES) :
        title = RECURRING_SERIES[i].text \/ RStrip(title) = RECURRING_SERIES[i].text}

\* the personal keywords are looked at before the client keywords
classify_file_personal_first(filename) ==
    LET lower == Lower(filename)
        c == ClientHits(lower)
        s == SeriesHits(extract_title(filename))
    IN  IF PersonalHit(lower)
        THEN "Personal"
        ELSE IF c # {}
             THEN CLIENT_MAPPINGS[CHOOSE i \in c : \A j \in c : i <= j].folder
             ELSE IF s # {}
                  THEN RECURRING_SERIES[CHOOSE i \in s : \A j \in s : i <= j].name
                  ELSE "Individual Meetings"

\* classify_file: the target folder of a transcript file name
classify_file(filename) ==
    LET title == extract_title(filename)
        lower == Lower(filename)
        c == ClientHits(lower)
        s == SeriesHits(title)
    IN  IF c # {}
        THEN CLIENT_MAPPINGS[CHOOSE i \in c : \A j \in c : i <= j].folder
        ELSE IF PersonalHit(lower)
             THEN "Personal"
             ELSE IF s # {}
                  THEN RECURRING_SERIES[CHOOSE i \in s : \A j \in s : i <= j].name
                  ELSE "Individual Meetings"

\* the file names classify_file is given: one or several rules apply, the
\* title is exact or not, the date is there or not
CLASSIFY_NAMES ==
    <<
       \* "All Hands 2025-01-15 transcript.txt"
       <<"A", "l", "l", " ", "H", "a", "n", "d", "s", " ", "2", "0", "2",
         "5", "-", "0", "1", "-", "1", "5", " ", "t", "r", "a", "n", "s",
         "c", "r", "i", "p", "t", ".", "t", "x", "t">>,
       \* "All Hands transcript.txt"
       <<"A", "l", "l", " ", "H", "a", "n", "d", "s", " ", "t", "r", "a",
         "n", "s", "c", "r", "i", "p", "t", ".", "t", "x", "t">>,
       \* "All Hands  2025-01-15 transcript.txt"
       <<"A", "l", "l", " ", "H", "a", "n", "d", "s", " ", " ", "2", "0",
         "2", "5", "-", "0", "1", "-", "1", "5", " ", "t", "r", "a", "n",
         "s", "c", "r", "i", "p", "t", ".", "t", "x", "t">>,
       \* "all hands 2025-01-15 transcript.txt"
       <<"a", "l", "l", " ", "h", "a", "n", "d", "s", " ", "2", "0", "2",
         "5", "-", "0", "1", "-", "1", "5", " ", "t", "r", "a", "n", "s",
         "c", "r", "i", "p", "t", ".", "t", "x", "t">>,
       \* "All Hands Prep 2025-01-15 transcript.txt"
       <<"A", "l", "l", " ", "H", "a", "n", "d", "s", " ", "P", "r", "e",
         "p", " ", "2", "0", "2", "5", "-", "0", "1", "-", "1", "5", " ",
         "t", "r", "a", "n", "s", "c", "r", "i", "p", "t", ".", "t", "x", "t">>,
       \* "All Hands 2025-01-15 funeral.txt"
       <<"A", "l", "l", " ", "H", "a", "n", "d", "s", " ", "2", "0", "2",
         "5", "-", "0", "1", "-", "1", "5", " ", "f", "u", "n", "e", "r",
         "a", "l", ".", "t", "x", "t">>,
       \* "All Hands 2025-01-15 OpenAI.txt"
       <<"A", "l", "l", " ", "H", "a", "n", "d", "s", " ", "2", "0", "2",
         "5", "-", "0", "1", "-", "1", "5", " ", "O", "p", "e", "n", "A",
         "I", ".", "t", "x", "t">>,
       \* "Kyra & Alli 1x1 2025-02-03 transcript.txt"
       <<"K", "y", "r", "a", " ", "&", " ", "A", "l", "l", "i", " ", "1",
         "x", "1", " ", "2", "0", "2", "5", "-", "0", "2", "-", "0", "3",
         " ", "t", "r", "a", "n", "s", "c", "r", "i", "p", "t", ".", "t",
         "x", "t">>,
       \* "Random Chat 2025-02-02 transcript.txt"
       <<"R", "a", "n", "d", "o", "m", " ", "C", "h", "a", "t", " ", "2",
         "0", "2", "5", "-", "0", "2", "-", "0", "2", " ", "t", "r", "a",
         "n", "s", "c", "r", "i", "p", "t", ".", "t", "x", "t">>,
       \* "Celebration of Life 2025-03-01 transcript.txt"
       <<"C", "e", "l", "e", "b", "r", "a", "t", "i", "o", "n", " ", "o",
         "f", " ", "L", "i", "f", "e", " ", "2", "0", "2", "5", "-", "0",
         "3", "-", "0", "1", " ", "t", "r", "a", "n", "s", "c", "r", "i",
         "p", "t", ".", "t", "x", "t">>,
       \* "ABI Funeral 2025-01-15 transcript.txt"
       <<"A", "B", "I", " ", "F", "u", "n", "e", "r", "a", "l", " ", "2",
         "0", "2", "5", "-", "0", "1", "-", "1", "5", " ", "t", "r", "a",
         "n", "s", "c", "r", "i", "p", "t", ".", "t", "x", "t">>,
       \* "HP x Section Asurion 2025-01-15 transcript.txt"
       <<"H", "P", " ", "x", " ", "S", "e", "c", "t", "i", "o", "n", " ",
         "A", "s", "u", "r", "i", "o", "n", " ", "2", "0", "2", "5", "-",
         "0", "1", "-", "1", "5", " ", "t", "r", "a", "n", "s", "c", "r",
         "i", "p", "t", ".", "t", "x", "t">>,
       \* "Horizon x OpenAI Funeral 2025-04-04 transcript.txt"
       <<"H", "o", "r", "i", "z", "o", "n", " ", "x", " ", "O", "p", "e",
         "n", "A", "I", " ", "F", "u", "n", "e", "r", "a", "l", " ", "2",
         "0", "2", "5", "-", "0", "4", "-", "0", "4", " ", "t", "r", "a",
         "n", "s", "c", "r", "i", "p", "t", ".", "t", "x", "t">>,
       \* "Asurion Weekly transcript.txt"
       <<"A", "s", "u", "r", "i", "o", "n", " ", "W", "e", "e", "k", "l",
         "y", " ", "t", "r", "a", "n", "s", "c", "r", "i", "p", "t", ".",
         "t", "x", "t">> >>

\* ------------------------------------- TranscriptTracker (progress store)

\* a row of processed_transcripts (id and processed_at are set by SQLite and
\* read by nothing)
Row(filepath, filename, meeting_date, client_entity, status) ==
    [filepath |-> filepath, filename |-> filename, meeting_date |-> meeting_date,
     client_entity |-> client_entity, status |-> status]

\* INSERT without the conflict clause resolved: the old row stays
mark_processed_insert_only(rows_, filepath, filename, meeting_date, client_entity, status) ==
    rows_ \cup {Row(filepath, filename, meeting_date, client_entity, status)}

\* the INSERT is never committed: the table is as before
mark_processed_nocommit(rows_, filepath, filename, meeting_date, client_entity, status) ==
    rows_

\* the column list leaves status out: the row is stored with a NULL status
mark_processed_partial(rows_, filepath, filename, meeting_date, client_entity, status) ==
    {r \in rows_ : r.filepath # filepath}
        \cup {Row(filepath, filename, meeting_date, client_entity, <<>>)}

\* the new status is written into every row of the table
mark_processed_touch_all(rows_, filepath, filename, meeting_date, client_entity, status) ==
    {Row(r.filepath, r.filename, r.meeting_date, r.client_entity, status) :
        r \in {x \in rows_ : x.filepath # filepath}}
        \cup {Row(filepath, filename, meeting_date, client_entity, status)}

\* the table is emptied before the INSERT: only the new row is left
mark_processed_truncating(rows_, filepath, filename, meeting_date, client_entity, status) ==
    {Row(filepath, filename, meeting_date, client_entity, status)}

\* TranscriptTracker.mark_processed: INSERT OR REPLACE on the UNIQUE filepath,
\* then commit; the table after the call
mark_processed(rows_, filepath, filename, meeting_date, client_entity, status) ==
    {r \in rows_ : r.filepath # filepath}
        \cup {Row(filepath, filename, meeting_date, client_entity, status)}

\* only rows with status "success" count
is_processed_success_only(rows_, filepath) ==
    \E r \in rows_ : r.filepath = filepath /\ r.status = <<"success">>

\* TranscriptTracker.is_processed
is_processed(rows_, filepath) == \E r \in rows_ : r.filepath = filepath

\* no filtering at all
get_unprocessed_all(rows_, files) == files

\* the filter is inverted: the files that have a row
get_unprocessed_inverted(rows_, files) ==
    SelectSeq(files, LAMBDA f : \E r \in rows_ : r.filepath = f)

\* rows with an error status do not count as processed
get_unprocessed_retry_errors(rows_, files) ==
    LET done == {r.filepath : r \in {x \in rows_ : x.status = <<>> \/ x.status[1] # "error: "}}
    IN  SelectSeq(files, LAMBDA f : f \notin done)

\* the set difference, in ascending order instead of the order given
get_unprocessed_sorted(rows_, files) ==
    LET left == Range(files) \ {r.filepath : r \in rows_}
    IN  IF left = {}
        THEN <<>>
        ELSE CHOOSE s \in [1..Cardinality(left) -> left] :
                \A i, j \in 1..Cardinality(left) : i < j => s[i] < s[j]

\* TranscriptTracker.get_unprocessed
get_unprocessed(rows_, files) ==
    LET processed_ == {r.filepath : r \in rows_}
    IN  SelectSeq(files, LAMBDA f : f \notin processed_)

\* DailySync.get_all_transcripts: the files under transcripts_dir, in the
\* directory's enumeration order (ascending path number)
get_all_transcripts(dir_) ==
    IF dir_ = {}
    THEN <<>>
    ELSE CHOOSE s \in [1..Cardinality(dir_) -> dir_] :
            \A i, j \in 1..Cardinality(dir_) : i < j => s[i] < s[j]

\* run, lines 126-127: `if limit: unprocessed = unprocessed[:limit]`;
\* the limit argument is <<>> for None and <<n>> for the integer n
ApplyLimit(found_, limit_) ==
    IF limit_ # <<>> /\ limit_[1] # 0
    THEN PySliceTo(found_, limit_[1])
    ELSE found_

\* statuses written by process_single
STATUS_SUCCESS == <<"success">>
STATUS_EMPTY == <<"empty">>
UNKNOWN == <<"unknown">>
ErrorStatus(msg) == <<"error: ">> \o Take(msg, ERROR_PREFIX_LEN)
IsErrorStatus(status) == Len(status) >= 1 /\ status[1] = "error: "

\* the date of the file name comes first
MeetingDate_FilenameFirst(processed_, p) ==
    IF extract_date_from_filename(PathName(p)) # <<>>
    THEN extract_date_from_filename(PathName(p))
    ELSE IF processed_.date # <<>> THEN processed_.date ELSE UNKNOWN

\* process_single, line 96: date field, else file-name date, else "unknown"
MeetingDate(processed_, p) ==
    IF processed_.date # <<>>
    THEN processed_.date
    ELSE IF extract_date_from_filename(PathName(p)) # <<>>
         THEN extract_date_from_filename(PathName(p))
         ELSE UNKNOWN

\* ---------------------------------------------------------------- state

VARIABLES
    dir,            \* the paths of the *.txt files under transcripts_dir
    rows,           \* the processed_transcripts table
    conn,           \* the tracker's database connection: "open" or "closed"
    pc,             \* where the orchestrator is
    mode,           \* "run" inside run(), "single" inside a direct process_single,
                    \* "dry" for main's dry run
    limit,          \* run's limit argument: <<>> for None, <<n>> for n
    all_files,      \* get_all_transcripts() of the current run
    found,          \* get_unprocessed_transcripts() of the current run
    unprocessed,    \* the list run iterates over (after the limit)
    idx,            \* position of the for loop in unprocessed
    success,        \* run's success counter
    failed,         \* run's failed counter
    result,         \* <<>> or <<the dictionary run returned>>
    cur,            \* the filepath process_single works on (0: none)
    client,         \* process_single's client ("" before it is resolved)
    processed,      \* what process_file returned
    errmsg,         \* str(e) of the exception the handler caught
    ret,            \* what process_single returned: "none", "True", "False"
    attemptSink,    \* entity names sent to the memory sink by this attempt
    attemptApi,     \* whether this attempt called the summarization service
    runApi,         \* summarization calls made by the current run
    runSink,        \* memory-sink updates issued by the current run
    runWrites,      \* per path, store writes completed by the current run
    runWriteFailures, \* store writes that raised during the current run
    raisedInRun,    \* paths of the current run whose try block raised
    emptyInRun,     \* paths of the current run whose summary came back empty
    startRecorded,  \* the paths that had a row when the current run started
    rerun,          \* the current run follows a completed run(None) over the same files
    cleanFull,      \* a run(None) has returned and no file was added since
    summarized,     \* the paths some run has called the summarization service for
    cutShort,       \* the paths with an attempt of a run that ended after that
                    \* call and before its row was written
    lastCall,       \* per path, <<>> or <<the last completed mark_processed call>>
    disruptions,    \* interruptions and failed store writes so far
    query           \* the last direct call of a method that only computes a
                    \* value: its name, its arguments and what it returned

storeVars == <<rows, lastCall, conn>>
runVars == <<limit, all_files, found, unprocessed, result>>
countVars == <<idx, success, failed>>
attemptVars == <<cur, client, processed, errmsg, ret, attemptSink, attemptApi>>
runGhost == <<runApi, runSink, runWrites, runWriteFailures, raisedInRun,
              emptyInRun, startRecorded, rerun>>
histVars == <<cleanFull, summarized, cutShort, disruptions>>
callVars == <<mapper, query>>

vars == <<dir, pc, mode, storeVars, runVars, countVars, attemptVars, runGhost,
          histVars, callVars>>

\* the orchestrator is not inside run or process_single
IdlePcs == {"idle", "returned", "aborted", "interrupted", "single_done",
            "dry_done"}
\* process_single has started on cur and has written nothing yet
BeforeWritePcs == {"summarize", "update", "mark_empty", "mark_success",
                   "handler"}

ZeroPerPath == [p \in Paths |-> 0]

\* no such call was made
NoQuery == [op |-> "none", arg |-> <<>>, out |-> <<>>]

\* nothing has run: everything but the directory, the configuration and
\* the position of the program
InitData ==
    /\ rows = {}
    /\ conn = "open"
    /\ mode = "none"
    /\ limit = <<>>
    /\ all_files = <<>>
    /\ found = <<>>
    /\ unprocessed = <<>>
    /\ idx = 1
    /\ success = 0
    /\ failed = 0
    /\ result = <<>>
    /\ cur = 0
    /\ client = ""
    /\ processed = NoProcessed
    /\ errmsg = <<>>
    /\ ret = "none"
    /\ attemptSink = <<>>
    /\ attemptApi = FALSE
    /\ runApi = 0
    /\ runSink = 0
    /\ runWrites = ZeroPerPath
    /\ runWriteFailures = 0
    /\ raisedInRun = {}
    /\ emptyInRun = {}
    /\ startRecorded = {}
    /\ rerun = FALSE
    /\ cleanFull = FALSE
    /\ summarized = {}
    /\ cutShort = {}
    /\ lastCall = [p \in Paths |-> <<>>]
    /\ disruptions = 0
    /\ query = NoQuery

\* DailySync.__init__ on an empty database: everything but the directory
\* and the configuration
InitRest ==
    /\ pc = "idle"
    /\ InitData

\* DailySync.__init__ with the repository's configuration, before any file
\* is there
Init ==
    /\ dir = {}
    /\ mapper = LoadedConfig
    /\ InitRest

\* process_single, lines 66-76: entered for p, the client is resolved
EnterAttempt(p) ==
    /\ cur' = p
    /\ client' = ResolveClient(p)
    /\ processed' = NoProcessed
    /\ errmsg' = <<>>
    /\ ret' = "none"
    /\ attemptSink' = <<>>
    /\ attemptApi' = FALSE

\* no process_single is active
NoAttempt ==
    /\ cur' = 0
    /\ client' = ""
    /\ processed' = NoProcessed
    /\ errmsg' = <<>>
    /\ ret' = "none"
    /\ attemptSink' = <<>>
    /\ attemptApi' = FALSE

\* nothing is left of an earlier run
NoRun ==
    /\ limit' = <<>>
    /\ all_files' = <<>>
    /\ found' = <<>>
    /\ unprocessed' = <<>>
    /\ result' = <<>>
    /\ idx' = 1
    /\ success' = 0
    /\ failed' = 0
    /\ runApi' = 0
    /\ runSink' = 0
    /\ runWrites' = ZeroPerPath
    /\ runWriteFailures' = 0
    /\ raisedInRun' = {}
    /\ emptyInRun' = {}
    /\ startRecorded' = {}
    /\ rerun' = FALSE

\* the transcript source puts a new file under transcripts_dir; a run reads
\* the directory once, at its start, so a file that arrives during a run is
\* seen as one that arrives right after it
AddFile(p) ==
    /\ pc \in IdlePcs
    /\ p \notin dir
    /\ dir' = dir \cup {p}
    /\ cleanFull' = FALSE
    /\ pc' = "idle"
    /\ mode' = "none"
    /\ NoAttempt
    /\ NoRun
    /\ query' = NoQuery
    /\ UNCHANGED <<mapper, storeVars, summarized, cutShort, disruptions>>

\* DailySync.run, lines 121-131: enumerate, filter, apply the limit
StartRun(lim) ==
    /\ pc \in IdlePcs
    /\ pc' = "loop"
    /\ mode' = "run"
    /\ limit' = lim
    /\ all_files' = get_all_transcripts(dir)
    /\ found' = get_unprocessed(rows, all_files')
    /\ unprocessed' = ApplyLimit(found', lim)
    /\ idx' = 1
    /\ success' = 0
    /\ failed' = 0
    /\ result' = <<>>
    /\ NoAttempt
    /\ runApi' = 0
    /\ runSink' = 0
    /\ runWrites' = ZeroPerPath
    /\ runWriteFailures' = 0
    /\ raisedInRun' = {}
    /\ emptyInRun' = {}
    /\ startRecorded' = {r.filepath : r \in rows}
    /\ rerun' = cleanFull
    /\ UNCHANGED <<callVars, dir, storeVars, histVars>>

\* the file is recorded as in progress when the loop takes it
RunNext_MarksFirst ==
    /\ pc = "loop"
    /\ idx <= Len(unprocessed)
    /\ pc' = "summarize"
    /\ EnterAttempt(unprocessed[idx])
    /\ rows' = mark_processed(rows, unprocessed[idx], PathName(unprocessed[idx]),
                              UNKNOWN, "unknown", <<"processing">>)
    /\ UNCHANGED <<callVars, dir, mode, lastCall, conn, runVars, countVars, runGhost,
                   histVars>>

\* run, lines 133-134: the loop takes the next file and enters process_single
RunNext ==
    /\ pc = "loop"
    /\ idx <= Len(unprocessed)
    /\ pc' = "summarize"
    /\ EnterAttempt(unprocessed[idx])
    /\ UNCHANGED <<callVars, dir, mode, storeVars, runVars, countVars, runGhost, histVars>>

\* the dictionary run returns (timing left out)
RunResult(unprocessed_, success_, failed_) ==
    [total |-> Len(unprocessed_), success |-> success_, failed |-> failed_]

\* run, lines 139-152: the loop is over, run returns its result
RunReturn ==
    /\ pc = "loop"
    /\ idx > Len(unprocessed)
    /\ pc' = "returned"
    /\ result' = <<RunResult(unprocessed, success, failed)>>
    /\ cleanFull' = (cleanFull \/ limit = <<>>)
    /\ NoAttempt
    /\ UNCHANGED <<callVars, dir, mode, storeVars, limit, all_files, found, unprocessed,
                   countVars, runGhost, summarized, cutShort, disruptions>>

\* the dry run marks what it lists as processed
DryRun_Marks ==
    /\ pc \in IdlePcs
    /\ pc' = "dry_done"
    /\ mode' = "dry"
    /\ rows' = rows \cup {Row(f, PathName(f), UNKNOWN, "unknown", STATUS_SUCCESS) :
                            f \in dir \ {r.filepath : r \in rows}}
    /\ UNCHANGED <<dir, lastCall, conn, runVars, countVars, attemptVars, runGhost,
                   histVars, callVars>>

\* main with --dry-run, lines 168-179 and 183: the unprocessed files are
\* listed, run is not called
DryRun ==
    /\ pc \in IdlePcs
    /\ pc' = "dry_done"
    /\ mode' = "dry"
    /\ all_files' = get_all_transcripts(dir)
    /\ found' = get_unprocessed(rows, all_files')
    /\ unprocessed' = found'
    /\ limit' = <<>>
    /\ result' = <<>>
    /\ idx' = 1
    /\ success' = 0
    /\ failed' = 0
    /\ NoAttempt
    /\ runApi' = 0
    /\ runSink' = 0
    /\ runWrites' = ZeroPerPath
    /\ runWriteFailures' = 0
    /\ raisedInRun' = {}
    /\ emptyInRun' = {}
    /\ startRecorded' = {r.filepath : r \in rows}
    /\ rerun' = FALSE
    /\ UNCHANGED <<dir, storeVars, histVars, callVars>>

\* a direct call process_single(p), outside run
StartSingle(p) ==
    /\ pc \in IdlePcs
    /\ p \in dir
    /\ pc' = "summarize"
    /\ mode' = "single"
    /\ EnterAttempt(p)
    /\ NoRun
    /\ UNCHANGED <<callVars, dir, storeVars, histVars>>

\* the empty result is not checked: everything returned goes to the update
AfterSummarize_NoEmptyCheck(o) ==
    IF o \in {"ioerror", "apierror"} THEN "handler" ELSE "update"

\* where process_single goes after process_file: the handler when it raised,
\* the empty branch (line 81) or the memory update (line 93)
AfterSummarize(o) ==
    IF o \in {"ioerror", "apierror"}
    THEN "handler"
    ELSE IF Truthy(ReturnOf(o)) THEN "update" ELSE "mark_empty"

\* process_single, line 79: process_file reads the file and summarizes it
Summarize(o) ==
    /\ pc = "summarize"
    /\ o \in Outcomes(cur)
    /\ processed' = ReturnOf(o)
    /\ errmsg' = (CASE o = "ioerror" -> MSG_IO [] o = "apierror" -> MSG_API
                    [] OTHER -> <<>>)
    /\ attemptApi' = CallsApi(o)
    /\ pc' = AfterSummarize(o)
    /\ IF mode = "run"
       THEN /\ runApi' = runApi + (IF CallsApi(o) THEN 1 ELSE 0)
            /\ summarized' = summarized \cup (IF CallsApi(o) THEN {cur} ELSE {})
            /\ raisedInRun' = raisedInRun \cup (IF o \in {"ioerror", "apierror"}
                                               THEN {cur} ELSE {})
            /\ emptyInRun' = emptyInRun \cup (IF o \in {"blank", "unparseable"}
                                             THEN {cur} ELSE {})
       ELSE UNCHANGED <<runApi, summarized, raisedInRun, emptyInRun>>
    /\ UNCHANGED <<callVars, dir, mode, storeVars, runVars, countVars, cur, client, ret,
                   attemptSink, runSink, runWrites, runWriteFailures, startRecorded,
                   rerun, cleanFull, cutShort, disruptions>>

\* the memory update is left out: the success record follows at once
Update_SkipsSink ==
    /\ pc = "update"
    /\ IF processed.kind = "nonmapping"
       THEN /\ pc' = "handler"
            /\ errmsg' = MSG_ATTR
            /\ raisedInRun' = (IF mode = "run" THEN raisedInRun \cup {cur}
                               ELSE raisedInRun)
       ELSE /\ pc' = "mark_success"
            /\ UNCHANGED <<errmsg, raisedInRun>>
    /\ UNCHANGED <<callVars, dir, mode, storeVars, runVars, countVars, cur, client, processed,
                   ret, attemptApi, runApi, runWrites, runWriteFailures, emptyInRun,
                   startRecorded, rerun, histVars, attemptSink, runSink>>

\* process_single, line 93: update_from_transcript; build_observation calls
\* .get on the data, which raises AttributeError when it is no mapping
Update ==
    /\ pc = "update"
    /\ IF processed.kind = "nonmapping"
       THEN /\ pc' = "handler"
            /\ errmsg' = MSG_ATTR
            /\ raisedInRun' = (IF mode = "run" THEN raisedInRun \cup {cur}
                               ELSE raisedInRun)
            /\ UNCHANGED <<attemptSink, runSink>>
       ELSE /\ pc' = "mark_success"
            /\ attemptSink' = Append(attemptSink, format_entity_name(client))
            /\ runSink' = (IF mode = "run" THEN runSink + 1 ELSE runSink)
            /\ UNCHANGED <<errmsg, raisedInRun>>
    /\ UNCHANGED <<callVars, dir, mode, storeVars, runVars, countVars, cur, client, processed,
                   ret, attemptApi, runApi, runWrites, runWriteFailures, emptyInRun,
                   startRecorded, rerun, histVars>>

\* a completed call tracker.mark_processed(...) made for path p, on an
\* open connection
StoreWrite(p, filename, meeting_date, client_entity, status) ==
    /\ conn = "open"
    /\ conn' = conn
    /\ rows' = mark_processed(rows, p, filename, meeting_date, client_entity, status)
    /\ lastCall' = [lastCall EXCEPT ![p] =
                        <<Row(p, filename, meeting_date, client_entity, status)>>]

\* the loop counts the files that succeed and forgets the others
Finish_NoFailedCount(r) ==
    /\ ret' = r
    /\ IF mode = "run"
       THEN /\ pc' = "loop"
            /\ idx' = idx + 1
            /\ success' = success + (IF r = "True" THEN 1 ELSE 0)
            /\ failed' = failed
            /\ runWrites' = [runWrites EXCEPT ![cur] = @ + 1]
       ELSE /\ pc' = "single_done"
            /\ UNCHANGED <<countVars, runWrites>>

\* process_single returns r; inside run (lines 134-137) the loop counts it
\* and moves on
Finish(r) ==
    /\ ret' = r
    /\ IF mode = "run"
       THEN /\ pc' = "loop"
            /\ idx' = idx + 1
            /\ success' = success + (IF r = "True" THEN 1 ELSE 0)
            /\ failed' = failed + (IF r = "True" THEN 0 ELSE 1)
            /\ runWrites' = [runWrites EXCEPT ![cur] = @ + 1]
       ELSE /\ pc' = "single_done"
            /\ UNCHANGED <<countVars, runWrites>>

\* process_single, lines 81-90: nothing extracted
MarkEmpty ==
    /\ pc = "mark_empty"
    /\ StoreWrite(cur, PathName(cur), UNKNOWN, client, STATUS_EMPTY)
    /\ Finish("False")
    /\ UNCHANGED <<callVars, dir, mode, runVars, cur, client, processed, errmsg, attemptSink,
                   attemptApi, runApi, runSink, runWriteFailures, raisedInRun,
                   emptyInRun, startRecorded, rerun, histVars>>

\* process_single, lines 95-106: the success record
MarkSuccess ==
    /\ pc = "mark_success"
    /\ StoreWrite(cur, PathName(cur), MeetingDate(processed, cur), client,
                  STATUS_SUCCESS)
    /\ Finish("True")
    /\ UNCHANGED <<callVars, dir, mode, runVars, cur, client, processed, errmsg, attemptSink,
                   attemptApi, runApi, runSink, runWriteFailures, raisedInRun,
                   emptyInRun, startRecorded, rerun, histVars>>

\* the handler lets the exception go instead of recording it
HandleError_Reraise ==
    /\ pc = "handler"
    /\ pc' = "aborted"
    /\ UNCHANGED <<callVars, dir, mode, storeVars, runVars, countVars, attemptVars, runGhost,
                   histVars>>

\* process_single, lines 108-117: `except Exception` records the error
HandleError ==
    /\ pc = "handler"
    /\ StoreWrite(cur, PathName(cur), UNKNOWN, "unknown", ErrorStatus(errmsg))
    /\ Finish("False")
    /\ UNCHANGED <<callVars, dir, mode, runVars, cur, client, processed, errmsg, attemptSink,
                   attemptApi, runApi, runSink, runWriteFailures, raisedInRun,
                   emptyInRun, startRecorded, rerun, histVars>>

\* a direct call tracker.mark_processed(p, ...), outside run
DirectArgs ==
    { [meeting_date |-> SUMMARY_DATE, client_entity |-> "Test",
       status |-> STATUS_SUCCESS],
      [meeting_date |-> UNKNOWN, client_entity |-> "Test", status |-> STATUS_EMPTY] }

MarkProcessedCall(p, a) ==
    /\ pc \in IdlePcs
    /\ pc' = "idle"
    /\ mode' = "none"
    /\ p \in dir
    /\ StoreWrite(p, PathName(p), a.meeting_date, a.client_entity, a.status)
    /\ NoAttempt
    /\ NoRun
    /\ query' = NoQuery
    /\ UNCHANGED <<mapper, dir, histVars>>

\* an attempt of a run that called the summarizer ends without a row for cur
LostAttempt == mode = "run" /\ attemptApi /\ pc \in BeforeWritePcs

\* the process is interrupted (killed) inside run or process_single: its
\* memory is gone, the database keeps what was committed
Crash ==
    /\ pc \notin IdlePcs
    /\ disruptions < MaxDisruptions
    /\ disruptions' = disruptions + 1
    /\ pc' = "interrupted"
    /\ mode' = "none"
    /\ cutShort' = (IF LostAttempt THEN cutShort \cup {cur} ELSE cutShort)
    /\ NoAttempt
    /\ NoRun
    /\ UNCHANGED <<callVars, dir, storeVars, cleanFull, summarized>>

\* the store write of the try block (line 83 or 97) raises sqlite3.Error,
\* which `except Exception` catches
MarkFails ==
    /\ pc \in {"mark_empty", "mark_success"}
    /\ disruptions < MaxDisruptions
    /\ disruptions' = disruptions + 1
    /\ pc' = "handler"
    /\ errmsg' = MSG_DB
    /\ runWriteFailures' = (IF mode = "run" THEN runWriteFailures + 1
                            ELSE runWriteFailures)
    /\ raisedInRun' = (IF mode = "run" THEN raisedInRun \cup {cur} ELSE raisedInRun)
    /\ UNCHANGED <<callVars, dir, mode, storeVars, runVars, countVars, cur, client, processed,
                   ret, attemptSink, attemptApi, runApi, runSink, runWrites,
                   emptyInRun, startRecorded, rerun, cleanFull, summarized,
                   cutShort>>

\* the failure of the handler's store write is swallowed: process_single
\* returns False and the loop goes on
HandlerWriteFails_Swallowed ==
    /\ pc = "handler"
    /\ disruptions < MaxDisruptions
    /\ disruptions' = disruptions + 1
    /\ Finish("False")
    /\ runWriteFailures' = (IF mode = "run" THEN runWriteFailures + 1
                            ELSE runWriteFailures)
    /\ cutShort' = (IF LostAttempt THEN cutShort \cup {cur} ELSE cutShort)
    /\ UNCHANGED <<callVars, dir, mode, storeVars, runVars, cur, client, processed,
                   errmsg, attemptSink, attemptApi, runApi, runSink, raisedInRun,
                   emptyInRun, startRecorded, rerun, cleanFull, summarized>>

\* the store write of the handler (line 110) raises: the exception leaves
\* process_single and run
HandlerWriteFails ==
    /\ pc = "handler"
    /\ disruptions < MaxDisruptions
    /\ disruptions' = disruptions + 1
    /\ pc' = "aborted"
    /\ runWriteFailures' = (IF mode = "run" THEN runWriteFailures + 1
                            ELSE runWriteFailures)
    /\ cutShort' = (IF LostAttempt THEN cutShort \cup {cur} ELSE cutShort)
    /\ UNCHANGED <<callVars, dir, mode, storeVars, runVars, countVars, attemptVars, runApi,
                   runSink, runWrites, raisedInRun, emptyInRun, startRecorded, rerun,
                   cleanFull, summarized>>

\* the limit arguments tried: None and 0..MaxPaths-1
Limits == {<<>>} \cup {<<n>> : n \in 0..(MaxPaths - 1)}

\* the pipeline with a working store: runs, direct calls, new files and
\* interruptions
Next ==
    \/ \E p \in Paths : AddFile(p)
    \/ \E lim \in Limits : StartRun(lim)
    \/ DryRun
    \/ RunNext
    \/ RunReturn
    \/ \E p \in Paths : StartSingle(p)
    \/ \E o \in {"ioerror", "blank", "apierror", "unparseable", "dated", "undated",
                 "nonmapping"} : Summarize(o)
    \/ Update
    \/ MarkEmpty
    \/ MarkSuccess
    \/ HandleError
    \/ \E p \in Paths, a \in DirectArgs : MarkProcessedCall(p, a)
    \/ Crash

Spec == Init /\ [][Next]_vars

\* the same with store writes that may fail
NextFault ==
    \/ Next
    \/ MarkFails
    \/ HandlerWriteFails

SpecFault == Init /\ [][NextFault]_vars

\* ------------------------------------------- the tracker, called directly

\* the arguments of direct mark_processed calls: one per kind of status
TrackerArgs ==
    DirectArgs \cup
        {[meeting_date |-> UNKNOWN, client_entity |-> "unknown",
          status |-> ErrorStatus(MSG_DB)]}

\* the candidate lists handed to get_unprocessed: any order, repetitions
\* and unknown paths included
CandidateLists == UNION {[1..n -> Paths] : n \in 0..(MaxPaths + 1)}

\* a direct call tracker.is_processed(p)
IsProcessedCall(p) ==
    /\ pc \in IdlePcs
    /\ query' = [op |-> "is_processed", arg |-> <<p>>,
                 out |-> <<is_processed(rows, p)>>]
    /\ UNCHANGED <<dir, pc, mode, storeVars, runVars, countVars, attemptVars,
                   runGhost, histVars, mapper>>

\* a direct call tracker.get_unprocessed(all_files)
GetUnprocessedCall(all_files_) ==
    /\ pc \in IdlePcs
    /\ query' = [op |-> "get_unprocessed", arg |-> all_files_,
                 out |-> get_unprocessed(rows, all_files_)]
    /\ UNCHANGED <<dir, pc, mode, storeVars, runVars, countVars, attemptVars,
                   runGhost, histVars, mapper>>

NextTracker ==
    \/ \E p \in Paths : AddFile(p)
    \/ \E p \in Paths, a \in TrackerArgs : MarkProcessedCall(p, a)
    \/ \E p \in Paths : IsProcessedCall(p)
    \/ \E c \in CandidateLists : GetUnprocessedCall(c)

\* the progress store under direct calls
SpecTracker == Init /\ [][NextTracker]_vars

\* -------------------------------------------------- closing the store

\* closing a connection that is closed already raises
close_strict(conn_) ==
    [raised |-> conn_ = "closed", conn |-> "closed"]

\* TranscriptTracker.close: self.conn.close(); sqlite3 closes an open
\* connection and does nothing on a closed one
close(conn_) ==
    [raised |-> FALSE, conn |-> "closed"]

\* a call of close() on the tracker or on the orchestrator, whose close
\* calls the tracker's
CloseCall(who) ==
    /\ pc \in IdlePcs
    /\ conn' = close(conn).conn
    /\ query' = [op |-> "close", arg |-> <<who, conn>>, out |-> <<close(conn).raised>>]
    /\ UNCHANGED <<dir, pc, mode, rows, lastCall, runVars, countVars, attemptVars,
                   runGhost, histVars, mapper>>

\* TranscriptTracker.__init__ on the same database file: a new connection;
\* CREATE TABLE IF NOT EXISTS leaves the rows alone
Reopen ==
    /\ pc \in IdlePcs
    /\ conn = "closed"
    /\ conn' = "open"
    /\ query' = NoQuery
    /\ UNCHANGED <<dir, pc, mode, rows, lastCall, runVars, countVars, attemptVars,
                   runGhost, histVars, mapper>>

NextClose ==
    \/ \E p \in Paths : AddFile(p)
    \/ \E p \in Paths, a \in TrackerArgs : MarkProcessedCall(p, a)
    \/ \E who \in {"tracker", "sync"} : CloseCall(who)
    \/ Reopen

\* the store written, closed any number of times and opened again
SpecClose == Init /\ [][NextClose]_vars

\* ------------------------------- process_single under any configuration

\* DailySync.__init__ with any configuration, all files there
InitResolve ==
    /\ dir = Paths
    /\ mapper \in Configs
    /\ InitRest

NextResolve ==
    \/ \E p \in Paths : StartSingle(p)
    \/ \E o \in {"ioerror", "blank", "apierror", "unparseable", "dated", "undated",
                 "nonmapping"} : Summarize(o)
    \/ Update
    \/ MarkEmpty
    \/ MarkSuccess
    \/ HandleError

\* direct calls of process_single, whatever the configuration holds
SpecResolve == InitResolve /\ [][NextResolve]_vars

\* ------------------------------------------------ the start of the program

\* what may be at config/client_mapping.json
ConfigFiles == {"missing", "invalid", "ok"}

\* ClientMapper.__init__, lines 12-13: open raises for a missing file,
\* json.load for a file that is not JSON
LoadError(cfg) ==
    CASE cfg = "missing" -> <<"FileNotFoundError">>
      [] cfg = "invalid" -> <<"JSONDecodeError">>
      [] OTHER -> <<>>

\* a mapper that cannot read its file goes on with the defaults
MapperInit_Defaults(cfg) ==
    IF cfg = "ok"
    THEN [raised |-> <<>>, mapper |-> LoadedConfig]
    ELSE [raised |-> <<>>,
          mapper |-> [series_map |-> [s \in {} |-> ""], filename_patterns |-> <<>>,
                      default |-> "Other"]]

\* ClientMapper.__init__: the exception it raises, if any, and the mapper
MapperInit(cfg) ==
    [raised |-> LoadError(cfg), mapper |-> LoadedConfig]

\* main, lines 168-171, and DailySync.__init__: the tracker opens the
\* database (the tables are created if missing, no row is written), then
\* the mapper loads the configuration; an exception leaves __init__ and
\* main
Construct(cfg) ==
    /\ pc = "unconstructed"
    /\ LET m == MapperInit(cfg)
       IN  /\ pc' = (IF m.raised = <<>> THEN "idle" ELSE "startup_failed")
           /\ mapper' = m.mapper
           /\ query' = [op |-> "construct", arg |-> <<cfg>>, out |-> m.raised]
    /\ UNCHANGED <<dir, mode, storeVars, runVars, countVars, attemptVars,
                   runGhost, histVars>>

\* the program has ended and is started again
Relaunch ==
    /\ pc \in IdlePcs \cup {"startup_failed"}
    /\ pc' = "unconstructed"
    /\ mode' = "none"
    /\ NoAttempt
    /\ NoRun
    /\ query' = NoQuery
    /\ UNCHANGED <<dir, mapper, storeVars, histVars>>

\* the program is about to start, all files there
InitStartup ==
    /\ dir = Paths
    /\ mapper = LoadedConfig
    /\ pc = "unconstructed"
    /\ InitData

NextStartup ==
    \/ \E cfg \in ConfigFiles : Construct(cfg)
    \/ Relaunch
    \/ \E lim \in Limits : StartRun(lim)
    \/ RunNext
    \/ RunReturn
    \/ \E o \in {"ioerror", "blank", "apierror", "unparseable", "dated", "undated",
                 "nonmapping"} : Summarize(o)
    \/ Update
    \/ MarkEmpty
    \/ MarkSuccess
    \/ HandleError

\* the program started over and over, with any configuration file
SpecStartup == InitStartup /\ [][NextStartup]_vars

\* ------------------------------- the methods that only compute a value

\* the folder names get_client is asked about
SeriesNames ==
    {FILES[i].series : i \in 1..Len(FILES)}
        \cup {"AIT Consulting Weekly", "ambient_ project", ""}

\* the configuration is loaded; no file, no row
InitCalls ==
    /\ dir = {}
    /\ mapper \in Configs
    /\ InitRest

\* a direct call mapper.get_client(meeting_series)
GetClientCall(meeting_series) ==
    /\ pc \in IdlePcs
    /\ query' = [op |-> "get_client", arg |-> <<meeting_series>>,
                 out |-> <<get_client(meeting_series)>>]
    /\ UNCHANGED <<dir, pc, mode, storeVars, runVars, countVars, attemptVars,
                   runGhost, histVars, mapper>>

\* a direct call mapper.get_client_from_filename(filename), on the name of
\* file i
GetClientFromFilenameCall(i) ==
    /\ pc \in IdlePcs
    /\ query' = [op |-> "get_client_from_filename", arg |-> <<FILES[i].filename>>,
                 out |-> <<get_client_from_filename(FILES[i].filename)>>]
    /\ UNCHANGED <<dir, pc, mode, storeVars, runVars, countVars, attemptVars,
                   runGhost, histVars, mapper>>

\* process_single, line 96, for file i and what the summarizer returned
MeetingDateCall(processed_, i) ==
    /\ pc \in IdlePcs
    /\ query' = [op |-> "meeting_date", arg |-> <<processed_, i>>,
                 out |-> <<MeetingDate(processed_, i)>>]
    /\ UNCHANGED <<dir, pc, mode, storeVars, runVars, countVars, attemptVars,
                   runGhost, histVars, mapper>>

\* a direct call processor.process_transcript(transcript_text)
ProcessTranscriptCall(transcript_text, response) ==
    /\ pc \in IdlePcs
    /\ query' = [op |-> "process_transcript", arg |-> <<transcript_text, response>>,
                 out |-> <<process_transcript(transcript_text, response),
                           ServiceCalls(transcript_text, response)>>]
    /\ UNCHANGED <<dir, pc, mode, storeVars, runVars, countVars, attemptVars,
                   runGhost, histVars, mapper>>

NextCalls ==
    \/ \E n \in SeriesNames : GetClientCall(n)
    \/ \E i \in 1..Len(FILES) : GetClientFromFilenameCall(i)
    \/ \E d \in {DatedFields, UndatedFields}, i \in 1..Len(FILES) :
          MeetingDateCall(d, i)
    \/ \E t \in Texts, r \in Responses : ProcessTranscriptCall(t, r)

\* direct calls of the mapper, the date rule and the summarizer, under any
\* configuration
SpecCalls == InitCalls /\ [][NextCalls]_vars

\* a direct call memory.build_observation(processed_data)
BuildObservationCall(data) ==
    /\ pc \in IdlePcs
    /\ query' = [op |-> "build_observation", arg |-> <<data>>,
                 out |-> build_observation(data)]
    /\ UNCHANGED <<dir, pc, mode, storeVars, runVars, countVars, attemptVars,
                   runGhost, histVars, mapper>>

\* a direct call classify_file(filename)
ClassifyFileCall(i) ==
    /\ pc \in IdlePcs
    /\ query' = [op |-> "classify_file", arg |-> <<i>>,
                 out |-> <<classify_file(CLASSIFY_NAMES[i])>>]
    /\ UNCHANGED <<dir, pc, mode, storeVars, runVars, countVars, attemptVars,
                   runGhost, histVars, mapper>>

NextText ==
    \/ \E d \in Summaries : BuildObservationCall(d)
    \/ \E i \in 1..Len(CLASSIFY_NAMES) : ClassifyFileCall(i)

\* direct calls of the observation builder and of the bulk classifier
SpecText == Init /\ [][NextText]_vars

\* ------------------------------------------------------------- claims

HasRow(p) == is_processed(rows, p)
RowsOf(p) == {r \in rows : r.filepath = p}

\* C1: when a run without limit has returned and the directory holds the
\* same files, the next run finds nothing unprocessed, calls the summarizer
\* for no file, sends nothing to the memory sink and returns total = 0
C1_Idempotent ==
    (mode = "run" /\ rerun) =>
        /\ found = <<>>
        /\ unprocessed = <<>>
        /\ runApi = 0
        /\ runSink = 0
        /\ \A p \in Paths : runWrites[p] = 0
        /\ pc \in {"loop", "returned"}
        /\ (pc = "returned" =>
                result = <<[total |-> 0, success |-> 0, failed |-> 0]>>)

\* a second run over a directory that is not empty has returned
C1_Witness ==
    /\ mode = "run"
    /\ rerun
    /\ pc = "returned"
    /\ all_files # <<>>
    /\ \E p \in Range(all_files) : p \in summarized

\* C2: the table holds at most one row per filepath, and that row is, field
\* by field, the row of the last completed mark_processed call for the path
C2_Dedup ==
    \A p \in Paths :
        /\ Cardinality(RowsOf(p)) <= 1
        /\ \A r \in RowsOf(p) : lastCall[p] = <<r>>
        /\ (lastCall[p] # <<>> => lastCall[p][1] \in rows)

\* the row a run wrote for a path was replaced by a later direct call
C2_Witness ==
    /\ pc = "idle"
    /\ \E p \in summarized \ cutShort :
          \E r \in rows : r.filepath = p /\ r.client_entity = "Test"

\* a step in which a run calls the summarization service for cur
RunCallsApi == pc = "summarize" /\ mode = "run" /\ attemptApi'

\* C3 as claimed: no run ever calls the summarizer for a path that a run
\* has called it for before, interruptions included
C3_Original == [][RunCallsApi => cur \notin summarized]_vars

\* C3, amended: a run calls the summarizer a second time for a path only
\* when an earlier attempt for it was cut short (the process interrupted, or
\* the run aborted) after the call and before its row was written; and when
\* a run without limit returns, every file it enumerated has a row
C3_AtMostOnceUnlessCutShort ==
    /\ [][RunCallsApi => (cur \notin summarized \/ cur \in cutShort)]_vars
    /\ []((mode = "run" /\ pc = "returned" /\ limit = <<>>) =>
            \A p \in Range(all_files) : HasRow(p))

\* a run has called the summarizer again for a path whose earlier attempt
\* was cut short
C3_Witness ==
    /\ mode = "run"
    /\ attemptApi
    /\ cur \in cutShort

\* the statuses process_single records
IsTerminalStatus(status) ==
    status = STATUS_SUCCESS \/ status = STATUS_EMPTY \/ IsErrorStatus(status)

\* C4: whatever subset of the candidates raises inside the try block of
\* process_single (the file read, the summarizer, the memory update, or the
\* store write of the try block), a run leaves process_single's handler only
\* by moving on; when it returns, every candidate has been attempted and has
\* a row with a terminal status, total is the number of candidates, failed
\* counts exactly the raising and the empty files and success the others.
\* A run ends without returning only when the handler's own write fails.
C4_Isolation ==
    /\ (mode = "run" /\ pc = "aborted") => runWriteFailures > 0
    /\ (mode = "run" /\ pc = "loop") => idx = success + failed + 1
    /\ (mode = "run" /\ pc = "returned") =>
        /\ result # <<>>
        /\ result[1].total = Len(unprocessed)
        /\ \A i \in 1..Len(unprocessed) :
              /\ runWrites[unprocessed[i]] = 1
              /\ \E r \in rows : r.filepath = unprocessed[i]
                                  /\ IsTerminalStatus(r.status)
        /\ result[1].failed =
              Cardinality((raisedInRun \cup emptyInRun) \cap Range(unprocessed))
        /\ result[1].success + result[1].failed = Len(unprocessed)
        /\ raisedInRun \cup emptyInRun \subseteq Range(unprocessed)

\* a run has returned in which a file raised and a later one was processed
C4_Witness ==
    /\ mode = "run"
    /\ pc = "returned"
    /\ result[1].total >= 2
    /\ \E i, j \in 1..Len(unprocessed) :
          /\ i < j
          /\ unprocessed[i] \in raisedInRun
          /\ HasRow(unprocessed[j])

\* C5: in a run no path is written more than once; a candidate is in flight
\* without a row until its one write; when the run returns each candidate has
\* been written exactly once and holds one terminal status; a path that had
\* a row when the run started is no candidate, is never the file in flight
\* and is not written
C5_StateMachine ==
    mode = "run" =>
        /\ \A p \in Paths : runWrites[p] <= 1
        /\ Range(found) \cap startRecorded = {}
        /\ Range(unprocessed) \cap startRecorded = {}
        /\ \A p \in startRecorded : runWrites[p] = 0 /\ p # cur
        /\ \A p \in Paths : runWrites[p] = 1 =>
              \E i \in 1..Len(unprocessed) : unprocessed[i] = p /\ i < idx
        /\ (pc = "returned" =>
              \A i \in 1..Len(unprocessed) :
                  /\ runWrites[unprocessed[i]] = 1
                  /\ Cardinality(RowsOf(unprocessed[i])) = 1
                  /\ \A r \in RowsOf(unprocessed[i]) : IsTerminalStatus(r.status))

\* a run has returned that skipped a path recorded earlier and processed
\* another
C5_Witness ==
    /\ mode = "run"
    /\ pc = "returned"
    /\ startRecorded \cap Range(all_files) # {}
    /\ unprocessed # <<>>

\* the row process_single writes for an empty result
EmptyRow(p, client_) == Row(p, PathName(p), UNKNOWN, client_, STATUS_EMPTY)

\* C6: when process_file returned an empty field set, process_single has
\* sent nothing to the memory sink, and once it has returned it has returned
\* False, the path's row has status "empty" and meeting_date "unknown", and a
\* run counts the file as failed; a path with an "empty" row is no candidate
\* of a run that starts
C6_Empty ==
    /\ (cur # 0 /\ processed.kind = "empty") =>
          /\ attemptSink = <<>>
          /\ pc \in {"mark_empty", "loop", "single_done"}
          /\ (ret # "none" =>
                /\ ret = "False"
                /\ RowsOf(cur) = {EmptyRow(cur, client)}
                /\ (mode = "run" => cur \in emptyInRun /\ failed >= 1))
    /\ (mode = "run" /\ pc = "loop" /\ idx = 1) =>
          \A r \in rows : r.status = STATUS_EMPTY => r.filepath \notin Range(found)

\* a run starts over a directory holding a file that process_single recorded
\* as empty
C6_Witness ==
    /\ mode = "run"
    /\ pc = "loop"
    /\ idx = 1
    /\ \E r \in rows :
          /\ r.status = STATUS_EMPTY
          /\ r.client_entity # "Test"
          /\ r.filepath \in Range(all_files)

\* C7: a path whose row has an error status counts as processed: it is no
\* candidate of any run that starts, and no run has it in flight
C7_ErrorTerminal ==
    /\ \A r \in rows : IsErrorStatus(r.status) => is_processed(rows, r.filepath)
    /\ (mode = "run" /\ pc = "loop" /\ idx = 1) =>
          \A r \in rows : IsErrorStatus(r.status) =>
              r.filepath \notin Range(found) \cup Range(unprocessed)
    /\ (mode = "run" /\ pc \in BeforeWritePcs) =>
          ~ \E r \in rows : r.filepath = cur /\ IsErrorStatus(r.status)

\* a later run has returned without retrying a file recorded with an error
C7_Witness ==
    /\ mode = "run"
    /\ pc = "returned"
    /\ \E r \in rows :
          /\ IsErrorStatus(r.status)
          /\ r.filepath \in startRecorded \cap Range(all_files)
          /\ runWrites[r.filepath] = 0

\* C8 as claimed: for every limit N and k unprocessed candidates the run
\* iterates over exactly the first min(N, k), returns total = min(N, k) and
\* leaves the other candidates without a row
C8_Limit ==
    (mode = "run" /\ limit # <<>>) =>
        /\ unprocessed = Take(found, Min(limit[1], Len(found)))
        /\ (pc = "returned" =>
              /\ result[1].total = Min(limit[1], Len(found))
              /\ \A i \in 1..Len(found) : i > Min(limit[1], Len(found)) =>
                    ~ HasRow(found[i]))

\* every column of the row is set
CompleteRow(r) ==
    /\ r.filename # <<>>
    /\ r.meeting_date # <<>>
    /\ r.client_entity # ""
    /\ r.status # <<>>

\* C9: at every point where a run can be interrupted, every row of the table
\* is complete, each file the run has finished has its row, the file in
\* flight has none until its single write, and a run that starts takes as
\* candidates exactly the enumerated files that have no row
C9_CrashConsistent ==
    /\ \A r \in rows : CompleteRow(r)
    /\ mode = "run" =>
          \A i \in 1..Len(unprocessed) : i < idx =>
              \E r \in rows : r.filepath = unprocessed[i] /\ CompleteRow(r)
    /\ (mode = "run" /\ pc \in BeforeWritePcs) => ~ HasRow(cur)
    /\ (mode = "run" /\ pc = "loop" /\ idx = 1) =>
          /\ Range(found) = {p \in Range(all_files) : ~ HasRow(p)}
          /\ found = SelectSeq(all_files, LAMBDA p : ~ HasRow(p))

\* after an interruption a run starts: the files recorded before are left
\* out and the file that was in flight is a candidate again
C9_Witness ==
    /\ mode = "run"
    /\ pc = "loop"
    /\ idx = 1
    /\ disruptions > 0
    /\ startRecorded \cap Range(all_files) # {}
    /\ Range(found) \cap cutShort # {}

\* C10 as claimed: once a store write has failed in a run, the run does not
\* go on: the exception is on its way out (in the handler) or has left run
C10_NotSwallowed ==
    (mode = "run" /\ runWriteFailures > 0) => pc \in {"handler", "aborted"}

\* C11: a dry run of main lists the unprocessed files and nothing else: in
\* the step it takes the table (and the calls that built it) stays as it
\* was, no path is added to those the summarizer was called for, and the
\* command has made no summarizer call and sent nothing to the memory sink
C11_DryRun ==
    [][mode' = "dry" =>
          /\ rows' = rows
          /\ lastCall' = lastCall
          /\ summarized' = summarized
          /\ runApi' = 0
          /\ ~ attemptApi'
          /\ runSink' = 0
          /\ attemptSink' = <<>>
          /\ found' = get_unprocessed(rows, get_all_transcripts(dir))]_vars

\* a dry run over a directory with a recorded file and an unrecorded one
C11_Witness ==
    /\ mode = "dry"
    /\ pc = "dry_done"
    /\ found # <<>>
    /\ \E p \in Range(all_files) : HasRow(p)

\* C12: is_processed(path) answers true exactly when mark_processed was
\* called for that path, whatever status the call recorded, and false for a
\* path no call was made for
C12_IsProcessed ==
    query.op = "is_processed" =>
        /\ query.out[1] = (lastCall[query.arg[1]] # <<>>)
        /\ query.out[1] = (\E r \in rows : r.filepath = query.arg[1])

\* is_processed answered true for a path recorded with an error status
C12_Witness ==
    /\ query.op = "is_processed"
    /\ query.out[1]
    /\ \E r \in rows : r.filepath = query.arg[1] /\ IsErrorStatus(r.status)

\* the positions of the candidate list whose path has no row
KeptPositions(c) == {i \in 1..Len(c) : lastCall[c[i]] = <<>>}

\* C13: get_unprocessed(candidates) returns the candidates that have no
\* row, each position of the input that qualifies once and in the order of
\* the input, and the call leaves the table as it was
C13_GetUnprocessed ==
    /\ [](query.op = "get_unprocessed" =>
            LET keep == KeptPositions(query.arg)
            IN  /\ Len(query.out) = Cardinality(keep)
                /\ \A i \in 1..Len(query.out) :
                      \E k \in keep :
                          /\ Cardinality({j \in keep : j <= k}) = i
                          /\ query.out[i] = query.arg[k])
    /\ [][query'.op = "get_unprocessed" => rows' = rows]_vars

\* get_unprocessed was given a list that is not in ascending order and
\* filtered a recorded path out of it
C13_Witness ==
    /\ query.op = "get_unprocessed"
    /\ \E i, j \in 1..Len(query.arg) : i < j /\ query.arg[i] > query.arg[j]
    /\ query.out # <<>>
    /\ Len(query.out) < Len(query.arg)

\* the candidates of the current run whose row says "success"
RecordedSuccess ==
    {p \in Range(unprocessed) :
        \E r \in rows : r.filepath = p /\ r.status = STATUS_SUCCESS}

\* the candidates of the current run whose row says "empty" or "error: ..."
RecordedFailed ==
    {p \in Range(unprocessed) :
        \E r \in rows : /\ r.filepath = p
                         /\ (r.status = STATUS_EMPTY \/ IsErrorStatus(r.status))}

\* C14: when run returns, success + failed = total, total is the number of
\* files the run processed, success is the number of files the run recorded
\* with status "success", and failed the number it recorded as "empty" or
\* with an error status
C14_RunStatistics ==
    (mode = "run" /\ pc = "returned") =>
        /\ result[1].success + result[1].failed = result[1].total
        /\ result[1].total = Cardinality({p \in Paths : runWrites[p] = 1})
        /\ result[1].total = Len(unprocessed)
        /\ result[1].success = Cardinality(RecordedSuccess)
        /\ result[1].failed = Cardinality(RecordedFailed)

\* a run has returned with a file that succeeded and a file that did not
C14_Witness ==
    /\ mode = "run"
    /\ pc = "returned"
    /\ result[1].success >= 1
    /\ result[1].failed >= 1

\* the label C15 describes: the series label of the containing folder unless
\* it is the configured default label, else the label of the file name
ClaimedLabel(p) ==
    IF get_client(extract_meeting_series(p)) # mapper.default
    THEN get_client(extract_meeting_series(p))
    ELSE get_client_from_filename(PathName(p))

\* C15 as claimed: whatever default_client the configuration holds, the
\* client label process_single records for a file (in its "success" or
\* "empty" row) is the series label of the folder when that is not the
\* configured default label, and the label of the file-name rules otherwise
C15_Resolution ==
    \A r \in rows :
        (r.status = STATUS_SUCCESS \/ r.status = STATUS_EMPTY) =>
            r.client_entity = ClaimedLabel(r.filepath)

\* C16: get_client(series) answers the mapped label when the name is a key
\* of meeting_series_to_client and the configured default label for every
\* other name, and the call changes neither the configuration nor the store
C16_GetClient ==
    /\ [](query.op = "get_client" =>
            /\ \A k \in DOMAIN mapper.series_map :
                  k = query.arg[1] => query.out[1] = mapper.series_map[k]
            /\ (\A k \in DOMAIN mapper.series_map : k # query.arg[1]) =>
                  query.out[1] = mapper.default)
    /\ [][query'.op = "get_client" => (mapper' = mapper /\ rows' = rows)]_vars

\* get_client was asked about a name that is no key, under a configuration
\* with series mappings and a default label of its own
C16_Witness ==
    /\ query.op = "get_client"
    /\ DOMAIN mapper.series_map # {}
    /\ query.arg[1] \notin DOMAIN mapper.series_map
    /\ query.out[1] = "Unknown"

\* whether rule i of the configuration matches the file name
RuleMatches(i, filename) ==
    Contains(Lower(filename), Lower(mapper.filename_patterns[i].pattern))

\* C17: get_client_from_filename answers the label of the first rule, in
\* configuration order, whose keyword occurs in the file name when case is
\* ignored, and the default label when no keyword occurs
C17_FirstRuleWins ==
    query.op = "get_client_from_filename" =>
        /\ (\A i \in 1..Len(mapper.filename_patterns) :
                ~ RuleMatches(i, query.arg[1])) => query.out[1] = mapper.default
        /\ \A i \in 1..Len(mapper.filename_patterns) :
              (/\ RuleMatches(i, query.arg[1])
               /\ \A j \in 1..(i - 1) : ~ RuleMatches(j, query.arg[1])) =>
                  query.out[1] = mapper.filename_patterns[i].client

\* get_client_from_filename was asked about a name in which two keywords
\* occur, in other letter case than the rules have
C17_Witness ==
    /\ query.op = "get_client_from_filename"
    /\ Len(mapper.filename_patterns) = 2
    /\ \A i \in 1..2 :
          /\ RuleMatches(i, query.arg[1])
          /\ ~ Contains(query.arg[1], mapper.filename_patterns[i].pattern)
    /\ query.out[1] = mapper.filename_patterns[1].client

\* the offsets of the file name at which a YYYY-MM-DD date stands
DateOffsets(filename) == {i \in 0..Len(filename) : DateAt(filename, i)}

\* C18: the meeting_date of a success record is the summarizer's date field
\* when there is one and it is not empty, otherwise the first YYYY-MM-DD date
\* in the file name, otherwise "unknown"
C18_MeetingDate ==
    query.op = "meeting_date" =>
        LET date == query.arg[1].date
            filename == PathName(query.arg[2])
        IN  /\ date # <<>> => query.out[1] = date
            /\ (date = <<>> /\ DateOffsets(filename) # {}) =>
                  \E i \in DateOffsets(filename) :
                      /\ \A j \in DateOffsets(filename) : i <= j
                      /\ query.out[1] = SubSeq(filename, i + 1, i + 10)
            /\ (date = <<>> /\ DateOffsets(filename) = {}) =>
                  query.out[1] = UNKNOWN

\* the summarizer gave a date for a file whose name holds another date
C18_Witness ==
    /\ query.op = "meeting_date"
    /\ query.arg[1].date # <<>>
    /\ DateOffsets(PathName(query.arg[2])) # {}
    /\ query.out[1] = SUMMARY_DATE

\* C19: process_transcript on a text that is empty or holds whitespace only
\* returns the empty field set, without a call of the service and without
\* raising
C19_BlankText ==
    (/\ query.op = "process_transcript"
     /\ \A i \in 1..Len(query.arg[1]) : IsSpace(query.arg[1][i])) =>
        /\ query.out[1].value = EmptyFields
        /\ ~ query.out[1].called
        /\ ~ query.out[1].raised

\* process_transcript was given whitespace while the service stood ready
\* with a summary
C19_Witness ==
    /\ query.op = "process_transcript"
    /\ query.arg[1] # <<>>
    /\ \A i \in 1..Len(query.arg[1]) : IsSpace(query.arg[1][i])
    /\ query.arg[2] = [raises |-> FALSE, content |-> <<RT_Dated>>]

\* C20 as claimed: whatever text the service answers with, process_transcript
\* returns a field mapping or the empty field set and does not raise
C20_Graceful ==
    (/\ query.op = "process_transcript"
     /\ query.out[1].called
     /\ ~ query.arg[2].raises) =>
        /\ ~ query.out[1].raised
        /\ query.out[1].value.kind \in {"fields", "empty"}

PosOf(obs, piece) ==
    IF \E i \in 1..Len(obs) : obs[i] = piece
    THEN CHOOSE i \in 1..Len(obs) : obs[i] = piece
    ELSE 0

\* how many of the three optional fields of a summary are filled
FilledFields(data) ==
    (IF data.main_topics # <<>> THEN 1 ELSE 0)
        + (IF data.key_context # <<>> THEN 1 ELSE 0)
        + (IF data.implied_work # <<>> THEN 1 ELSE 0)

\* a summary has no date: the key is missing or its text is empty
NoDate(data) == data.date = <<>> \/ data.date = <<"">>

\* C22: an observation starts with the date and a colon ("Unknown date:"
\* when the summary has no date); then come, in this order and only for the fields that are
\* filled, "Discussed <first three topics, comma-joined>.", the first
\* key_context item, and "Potential follow-up: <first implied_work item>";
\* the segments are separated by one space each and nothing else
C22_Observation ==
    query.op = "build_observation" =>
        LET data == query.arg[1]
            obs == query.out
            n == Min(Len(data.main_topics), 3)
            d == PosOf(obs, "Discussed ")
            k == IF data.key_context = <<>> THEN 0 ELSE PosOf(obs, data.key_context[1])
            w == PosOf(obs, "Potential follow-up: ")
        IN  /\ obs[1] = (IF NoDate(data) THEN "Unknown date" ELSE data.date[1])
            /\ obs[2] = ":"
            /\ Cardinality({i \in 1..Len(obs) : obs[i] = " "}) = FilledFields(data)
            /\ \A i \in 1..Len(obs) : obs[i] = " " =>
                  i > 1 /\ i < Len(obs) /\ obs[i - 1] # " " /\ obs[i + 1] # " "
            /\ (d # 0) = (data.main_topics # <<>>)
            /\ d # 0 =>
                  /\ d = 4
                  /\ obs[3] = " "
                  /\ \A i \in 1..n : obs[d + 2 * i - 1] = data.main_topics[i]
                  /\ \A i \in 1..(n - 1) : obs[d + 2 * i] = ", "
                  /\ obs[d + 2 * n] = "."
                  /\ \A i \in 1..Len(data.main_topics) :
                        i > 3 => PosOf(obs, data.main_topics[i]) = 0
            /\ (k # 0) = (data.key_context # <<>>)
            /\ k # 0 =>
                  /\ k > d
                  /\ obs[k - 1] = " "
                  /\ obs[k - 2] = (IF d # 0 THEN "." ELSE ":")
                  /\ \A i \in 2..Len(data.key_context) :
                        PosOf(obs, data.key_context[i]) = 0
            /\ (w # 0) = (data.implied_work # <<>>)
            /\ w # 0 =>
                  /\ w > d /\ w > k
                  /\ obs[w - 1] = " "
                  /\ obs[w + 1] = data.implied_work[1]
                  /\ Len(obs) = w + 1
            /\ Len(obs) = 2 + (IF d # 0 THEN 2 * n + 2 ELSE 0)
                             + (IF k # 0 THEN 2 ELSE 0) + (IF w # 0 THEN 3 ELSE 0)

\* no file is being or has been read, summarized, sent to the sink or
\* recorded since the program started
NothingTouched ==
    /\ mode = "none"
    /\ all_files = <<>>
    /\ found = <<>>
    /\ unprocessed = <<>>
    /\ result = <<>>
    /\ cur = 0
    /\ ~ attemptApi
    /\ attemptSink = <<>>
    /\ runApi = 0
    /\ runSink = 0
    /\ runWrites = ZeroPerPath

\* C23: when the configuration file is missing or not valid JSON, the
\* construction of the orchestrator fails; no file has been read,
\* summarized, sent to the sink or recorded, and from there the program
\* does nothing but end: the store keeps its rows
C23_ConfigFatal ==
    /\ [](query.op = "construct" /\ query.arg[1] # "ok" =>
            /\ query.out # <<>>
            /\ pc = "startup_failed"
            /\ NothingTouched)
    /\ [][pc = "startup_failed" => rows' = rows /\ pc' = "unconstructed"]_vars
    /\ [][pc = "unconstructed" /\ pc' = "startup_failed" => rows' = rows]_vars

\* the construction failed on a bad configuration file while files wait, one
\* of them not recorded yet
C23_Witness ==
    /\ pc = "startup_failed"
    /\ query.op = "construct"
    /\ query.arg[1] = "invalid"
    /\ rows # {}
    /\ \E p \in dir : ~ is_processed(rows, p)

\* C24: a path that has a record keeps having one, whatever runs,
\* process_single calls and mark_processed calls follow: once is_processed(p)
\* is true it stays true
C24_NeverDeleted ==
    [][\A p \in Paths : is_processed(rows, p) => is_processed(rows', p)]_vars

\* a run over a store that had records has returned after writing another
\* one, and every path recorded at its start is still recorded
C24_Witness ==
    /\ pc = "returned"
    /\ startRecorded # {}
    /\ \E p \in Paths : runWrites[p] > 0
    /\ \A p \in startRecorded : is_processed(rows, p)
    /\ Cardinality({r.filepath : r \in rows}) >= 2

C26_Cascade ==
    query.op = "classify_file" =>
        LET filename == CLASSIFY_NAMES[query.arg[1]]
            lower == Lower(filename)
            out == query.out[1]
            byClient == \E i \in 1..Len(CLIENT_MAPPINGS) :
                         \E k \in 1..Len(CLIENT_MAPPINGS[i].keywords) :
                            Contains(lower, CLIENT_MAPPINGS[i].keywords[k])
            byPersonal == \E k \in 1..Len(PERSONAL_KEYWORDS) :
                           Contains(lower, PERSONAL_KEYWORDS[k])
            bySeries == \E i \in 1..Len(RECURRING_SERIES) :
                         extract_title(filename) = RECURRING_SERIES[i].text
        IN  /\ byClient =>
                \E i \in 1..Len(CLIENT_MAPPINGS) :
                    /\ out = CLIENT_MAPPINGS[i].folder
                    /\ \E k \in 1..Len(CLIENT_MAPPINGS[i].keywords) :
                          Contains(lower, CLIENT_MAPPINGS[i].keywords[k])
                    /\ \A j \in 1..(i - 1) :
                          \A k \in 1..Len(CLIENT_MAPPINGS[j].keywords) :
                              ~ Contains(lower, CLIENT_MAPPINGS[j].keywords[k])
            /\ ~ byClient /\ byPersonal => out = "Personal"
            /\ ~ byClient /\ ~ byPersonal /\ bySeries =>
                \E i \in 1..Len(RECURRING_SERIES) :
                    /\ out = RECURRING_SERIES[i].name
                    /\ extract_title(filename) = RECURRING_SERIES[i].text
            /\ ~ byClient /\ ~ byPersonal /\ ~ bySeries => out = "Individual Meetings"

\* a file name that holds keywords of two clients, the later entry's first,
\* and a personal keyword was classified
C26_Witness ==
    /\ query.op = "classify_file"
    /\ Cardinality(ClientHits(Lower(CLASSIFY_NAMES[query.arg[1]]))) = 2
    /\ PersonalHit(Lower(CLASSIFY_NAMES[query.arg[1]]))
    /\ query.out[1] = "Horizon"

\* C27, as stated: no record of a path exists while the path is being
\* resolved or summarized
C27_Original ==
    pc = "summarize" => ~ HasRow(cur)

\* C27: the store is written by the last step of an attempt only, after
\* process_file has returned or raised, and for the path of the attempt
\* only (or by a direct mark_processed call outside any attempt); while run
\* works on a path, up to that step, the path has no record
C27_WriteEndsAttempt ==
    /\ [](mode = "run" /\ pc \in BeforeWritePcs => ~ HasRow(cur))
    /\ [][rows' # rows =>
            \/ pc \in IdlePcs
            \/ /\ pc \in {"mark_empty", "mark_success", "handler"}
               /\ processed # NoProcessed \/ errmsg # <<>>
               /\ pc' \in {"loop", "single_done"}
               /\ \A r \in (rows' \ rows) \cup (rows \ rows') : r.filepath = cur]_vars

\* an attempt of a run that called the summarizer has just written its
\* record, the first one of its path
C27_Witness ==
    /\ mode = "run"
    /\ pc = "loop"
    /\ cur # 0
    /\ attemptApi
    /\ runWrites[cur] = 1
    /\ HasRow(cur)
    /\ cur \notin startRecorded

\* C28: when process_single writes a record with status "success", exactly
\* one update of the memory sink was issued in this attempt before, for the
\* entity named after the client label the record carries; when it writes a
\* record with status "empty", no update of the sink was issued
C28_SinkBeforeSuccess ==
    [][(pc \in {"mark_empty", "mark_success", "handler"}
            /\ pc' \in {"loop", "single_done"}) =>
        LET r == lastCall'[cur][1]
        IN  /\ r \in rows'
            /\ r.status = STATUS_SUCCESS =>
                  /\ attemptSink = <<format_entity_name(r.client_entity)>>
                  /\ r.client_entity = client
            /\ r.status = STATUS_EMPTY => attemptSink = <<>>]_vars

\* an attempt of a run has written a success record after one update of the
\* sink
C28_Witness ==
    /\ mode = "run"
    /\ pc = "loop"
    /\ cur # 0
    /\ lastCall[cur] # <<>>
    /\ lastCall[cur][1].status = STATUS_SUCCESS
    /\ attemptSink = <<"Asurion">>
    /\ runSink = 1

\* C29: when the store write of the error handler fails inside run, the
\* exception leaves process_single and run: the run is over without a
\* result dictionary, nothing is written, no further candidate is taken,
\* and the failing file and the candidates after it have no record
C29_HandlerFailureEscapes ==
    /\ [][(pc = "handler" /\ mode = "run"
              /\ runWriteFailures' = runWriteFailures + 1) =>
            /\ pc' = "aborted"
            /\ result' = <<>>
            /\ rows' = rows
            /\ idx' = idx
            /\ success' = success
            /\ failed' = failed]_vars
    /\ [](mode = "run" /\ pc = "aborted" =>
            /\ result = <<>>
            /\ idx <= Len(unprocessed)
            /\ unprocessed[idx] = cur
            /\ \A i \in idx..Len(unprocessed) :
                  ~ HasRow(unprocessed[i]) /\ runWrites[unprocessed[i]] = 0)
    /\ [][(mode = "run" /\ pc = "aborted" /\ pc' \notin IdlePcs) =>
            (mode' = "single" \/ pc' = "loop")]_vars

\* a run was ended by a failing handler write on a file that is not the
\* last candidate
C29_Witness ==
    /\ mode = "run"
    /\ pc = "aborted"
    /\ runWriteFailures = 1
    /\ idx < Len(unprocessed)
    /\ result = <<>>
    /\ ~ HasRow(unprocessed[idx + 1])

\* C30: a step that changes the record of a path q is the store write of a
\* process_single(q) or of a mark_processed(q, ...) call, whatever status it
\* writes, and it leaves the record of every other path as it was, field by
\* field
C30_Frame ==
    [][\A q \in Paths :
          {r \in rows : r.filepath = q} # {r \in rows' : r.filepath = q} =>
              /\ pc \notin IdlePcs => q = cur
              /\ lastCall'[q] # <<>>
              /\ {r \in rows' : r.filepath = q} = {lastCall'[q][1]}
              /\ \A o \in Paths \ {q} :
                    /\ {r \in rows : r.filepath = o} = {r \in rows' : r.filepath = o}
                    /\ lastCall'[o] = lastCall[o]]_vars

\* process_single has recorded an error for its path while another path has
\* a record, which is the one last written for it
C30_Witness ==
    /\ pc \in {"loop", "single_done"}
    /\ cur # 0
    /\ lastCall[cur] # <<>>
    /\ IsErrorStatus(lastCall[cur][1].status)
    /\ \E o \in Paths \ {cur} : HasRow(o) /\ RowsOf(o) = {lastCall[o][1]}

====
